---- MODULE Spec2Model ----
(***************************************************************************)
(* Liar's-bar session engine (src/main.py): room registry, game state      *)
(* machine, deadline timers, AI tasks and the persisted snapshot.          *)
(*                                                                         *)
(* Python dicts are functions whose DOMAIN is the set of present keys.     *)
(* An Optional value is a sequence of length 0 (None) or 1.  The empty     *)
(* string is the "no player" id, as in the source.  Every block that the   *)
(* source runs under state_lock is one atomic action.  Wall-clock time is  *)
(* abstracted: a deadline is 0 (unset) or DEADLINE_SET, and a timer may    *)
(* fire at any moment while it is armed.                                   *)
(***************************************************************************)
EXTENDS Integers, Sequences, FiniteSets, TLC

VARIABLES
    rooms,               \* self.rooms: room_id -> RoomState
    player_room_index,   \* self.player_room_index: user_id -> room_id
    play_timeout_tasks,  \* self.play_timeout_tasks: room_id -> captured (token, target_uid)
    wire_timeout_tasks,  \* self.wire_timeout_tasks: room_id -> captured (token, target_uid)
    ai_action_tasks,     \* self.ai_action_tasks (+ ai_action_task_tokens): room_id -> task locals
    saved,               \* the snapshot last handed to StateRepository.save
    last_update,         \* the RoundUpdate.outbox of the last transition (abstract events)
    disk,                \* the state file and its .tmp sibling, and where a write stands
    start_calls,         \* the calls of _cmd_start_room between their two locked blocks
    obs                  \* history of the last step, read by the properties only

vars == <<rooms, player_room_index, play_timeout_tasks, wire_timeout_tasks,
          ai_action_tasks, saved, last_update, disk, start_calls, obs>>

-----------------------------------------------------------------------------
(* Program constants *)

CARD_SUN == "sun"
CARD_MOON == "moon"
CARD_STAR == "star"
CARD_MAGIC == "magic"
TARGET_CARDS == <<CARD_SUN, CARD_MOON, CARD_STAR>>
DECK_CARDS == <<CARD_SUN, CARD_MOON, CARD_STAR, CARD_MAGIC>>

\* the wire colours, written with the latin aliases WIRE_ALIASES gives them
WIRE_RED == "red"
WIRE_BLUE == "blue"
WIRE_YELLOW == "yellow"
WIRE_COLORS == <<WIRE_RED, WIRE_BLUE, WIRE_YELLOW>>

FIXED_HAND_SIZE == 5
DEFAULT_AI_MAX_PLAY_CARDS == 3
DEFAULT_AI_LLM_RETRY_TIMES == 1
MIN_PLAYERS == 3
MAX_PLAYERS == 5
DECK_WEIGHT_TARGET == 3
DECK_WEIGHT_MAGIC == 1
DECK_DISTRIBUTION_WEIGHTS ==
    [sun |-> DECK_WEIGHT_TARGET, moon |-> DECK_WEIGHT_TARGET,
     star |-> DECK_WEIGHT_TARGET, magic |-> DECK_WEIGHT_MAGIC]

PHASE_WAITING == "waiting"
PHASE_PLAYING == "playing"
PHASE_AWAIT_WIRE == "await_wire"

DEADLINE_UNSET == 0
DEADLINE_SET == 1

\* Configuration (self.conf), at its defaults.
ai_enabled == TRUE
require_dm_reachable_before_start == TRUE
ai_max_play_cards == DEFAULT_AI_MAX_PLAY_CARDS
ai_llm_retry_times == DEFAULT_AI_LLM_RETRY_TIMES

-----------------------------------------------------------------------------
(* Bounds of the model *)

\* No transition is taken in a room whose action_token has reached MaxToken.
MaxToken == 5
\* random.shuffle yields one of the first NumShuffles permutations of ShuffleStrides.
NumShuffles == 1
\* A room hands out at most MaxAiSeq AI identities (ai_seq never exceeds it).
MaxAiSeq == 1
\* The same two bounds for SpecLobby, and the token bound for SpecWire.
MaxLobbyToken == 3
MaxLobbyAiSeq == 2
MaxWireToken == 11
MaxReloadToken == 4
MaxShowdownToken == 4
MaxSeatsAiSeq == 4
\* At most MaxStartCalls calls of _cmd_start_room are between their locked blocks.
MaxStartCalls == 2
\* A room of SpecStart is allotted at most MaxStartAiSeq AI seats.
MaxStartAiSeq == 3
\* No step of a game is taken in a room of SpecPair whose token has reached MaxPairToken.
MaxPairToken == 3

-----------------------------------------------------------------------------
(* Generic helpers: dicts, lists *)

EmptyDict == [k \in {} |-> k]
Put(d, k, v) == [x \in (DOMAIN d) \cup {k} |-> IF x = k THEN v ELSE d[x]]
Pop(d, k) == [x \in (DOMAIN d) \ {k} |-> d[x]]
Get(d, k, default) == IF k \in DOMAIN d THEN d[k] ELSE default

Min(a, b) == IF a < b THEN a ELSE b
Max(a, b) == IF a > b THEN a ELSE b

Range(s) == {s[i] : i \in DOMAIN s}
Contains(s, x) == \E i \in DOMAIN s : s[i] = x
IndexOf(s, x) == CHOOSE i \in DOMAIN s : s[i] = x /\ \A j \in 1..(i - 1) : s[j] # x
Remove(s, x) ==
    IF Contains(s, x)
    THEN LET i == IndexOf(s, x) IN SubSeq(s, 1, i - 1) \o SubSeq(s, i + 1, Len(s))
    ELSE s

RECURSIVE SumSeq(_)
SumSeq(s) == IF s = <<>> THEN 0 ELSE Head(s) + SumSeq(Tail(s))

RECURSIVE Repeat(_, _)
Repeat(x, n) == IF n <= 0 THEN <<>> ELSE <<x>> \o Repeat(x, n - 1)

\* sorted(values) for a list of distinct integers
RECURSIVE SortAsc(_)
SortAsc(S) ==
    IF S = {} THEN <<>>
    ELSE LET m == CHOOSE x \in S : \A y \in S : x <= y IN <<m>> \o SortAsc(S \ {m})

-----------------------------------------------------------------------------
(* Deck builder *)

\* SortedByFracDesc with equal fractions ordered last face first
RECURSIVE SortedByFracDesc_mut(_, _)
SortedByFracDesc_mut(cards, frac) ==
    IF cards = <<>> THEN <<>>
    ELSE LET best == CHOOSE i \in DOMAIN cards :
                        /\ \A j \in DOMAIN cards : frac[cards[j]] <= frac[cards[i]]
                        /\ \A j \in (i + 1)..Len(cards) : frac[cards[j]] < frac[cards[i]]
         IN <<cards[best]>> \o
            SortedByFracDesc_mut(SubSeq(cards, 1, best - 1)
                                   \o SubSeq(cards, best + 1, Len(cards)), frac)

\* "sorted(cards, key=lambda c: raw[c] - counts[c], reverse=True)": a stable sort, so
\* cards with equal fractions keep the order of cards
RECURSIVE SortedByFracDesc(_, _)
SortedByFracDesc(cards, frac) ==
    IF cards = <<>> THEN <<>>
    ELSE LET best == CHOOSE i \in DOMAIN cards :
                        /\ \A j \in DOMAIN cards : frac[cards[j]] <= frac[cards[i]]
                        /\ \A j \in 1..(i - 1) : frac[cards[j]] < frac[cards[i]]
         IN <<cards[best]>> \o
            SortedByFracDesc(SubSeq(cards, 1, best - 1) \o SubSeq(cards, best + 1, Len(cards)), frac)

\* the "while remain > 0" loop
RECURSIVE DistributeRemainder(_, _, _, _)
DistributeRemainder(counts, order, idx, remain) ==
    IF remain <= 0 THEN counts
    ELSE LET c == order[(idx % Len(order)) + 1]
         IN DistributeRemainder([counts EXCEPT ![c] = @ + 1], order, idx + 1, remain - 1)

\* build_locked_deck_counts without the loop that hands out the remainder
build_locked_deck_counts_mut(start_player_count) ==
    LET players == Max(MIN_PLAYERS, Min(MAX_PLAYERS, start_player_count))
        total == players * FIXED_HAND_SIZE
        weights == DECK_DISTRIBUTION_WEIGHTS
        weight_sum == SumSeq([i \in DOMAIN DECK_CARDS |-> weights[DECK_CARDS[i]]])
    IN [c \in Range(DECK_CARDS) |-> (total * weights[c]) \div weight_sum]

\* _build_locked_deck_counts: raw[c] = total * w[c] / weight_sum is kept as the exact
\* fraction (total * w[c]) / weight_sum; int() truncates it and frac is the numerator
\* of raw[c] - counts[c].
build_locked_deck_counts(start_player_count) ==
    LET players == Max(MIN_PLAYERS, Min(MAX_PLAYERS, start_player_count))
        total == players * FIXED_HAND_SIZE
        weights == DECK_DISTRIBUTION_WEIGHTS
        weight_sum == SumSeq([i \in DOMAIN DECK_CARDS |-> weights[DECK_CARDS[i]]])
        counts == [c \in Range(DECK_CARDS) |-> (total * weights[c]) \div weight_sum]
        frac == [c \in Range(DECK_CARDS) |-> (total * weights[c]) % weight_sum]
        remain == total - SumSeq([i \in DOMAIN DECK_CARDS |-> counts[DECK_CARDS[i]]])
        order == SortedByFracDesc(DECK_CARDS, frac)
    IN DistributeRemainder(counts, order, 0, remain)

DeckTotal(counts) == SumSeq([i \in DOMAIN DECK_CARDS |-> Get(counts, DECK_CARDS[i], 0)])

\* random.shuffle: the permutation that reads the list with a fixed stride; the strides
\* are coprime to 15, 20 and 25, so each one permutes every deck of a match.
ShuffleStrides == <<7, 11, 13, 17, 19, 1>>
Shuffles == 1..Min(NumShuffles, Len(ShuffleStrides))
Shuffle(deck, k) ==
    LET n == Len(deck) IN [i \in 1..n |-> deck[(((i - 1) * ShuffleStrides[k]) % n) + 1]]

\* _build_round_deck
build_round_deck(room, k) ==
    LET counts == IF room.round_deck_counts # EmptyDict
                  THEN room.round_deck_counts
                  ELSE build_locked_deck_counts(
                         IF room.initial_player_count # 0 THEN room.initial_player_count
                         ELSE IF Len(room.order) # 0 THEN Len(room.order) ELSE 4)
        deck == Repeat(CARD_SUN, Get(counts, CARD_SUN, 0))
                \o Repeat(CARD_MOON, Get(counts, CARD_MOON, 0))
                \o Repeat(CARD_STAR, Get(counts, CARD_STAR, 0))
                \o Repeat(CARD_MAGIC, Get(counts, CARD_MAGIC, 0))
    IN IF deck = <<>> THEN deck ELSE Shuffle(deck, k)

-----------------------------------------------------------------------------
(* Data model *)

NoUser == ""
None == <<>>
Some(x) == <<x>>

\* PlayerState(user_id, name) / PlayerState(..., is_ai=True, dm_reachable=True)
PlayerState(is_ai) ==
    [is_ai |-> is_ai, alive |-> TRUE, hand |-> <<>>, bomb_color |-> "",
     wires_remaining |-> WIRE_COLORS, dm_reachable |-> is_ai]

\* PlayerState.reset_for_new_game, bomb being the outcome of random.choice(WIRE_COLORS)
reset_for_new_game(p, bomb) ==
    [p EXCEPT !.alive = TRUE, !.hand = <<>>, !.bomb_color = bomb,
              !.wires_remaining = WIRE_COLORS, !.dm_reachable = p.is_ai]

LastPlay(player_id, cards, declared_target) ==
    [player_id |-> player_id, cards |-> cards, declared_target |-> declared_target]

\* RoomState(room_id, owner_id, ...) with the dataclass defaults
RoomState(owner_id) ==
    [owner_id |-> owner_id, phase |-> PHASE_WAITING, round_no |-> 0, dealer_cursor |-> 0,
     players |-> EmptyDict, order |-> <<>>, target_card |-> "",
     current_turn_user_id |-> NoUser, last_play |-> None,
     pending_wire_user_id |-> NoUser, wire_options |-> <<>>,
     initial_player_count |-> 0, round_deck_total |-> 0, round_deck_counts |-> EmptyDict,
     play_deadline_ts |-> DEADLINE_UNSET, wire_deadline_ts |-> DEADLINE_UNSET,
     action_token |-> 0, ai_seq |-> 0]

\* RoomState.alive_ids
alive_ids(room) ==
    LET IsAlive(uid) == uid \in DOMAIN room.players /\ room.players[uid].alive
    IN SelectSeq(room.order, IsAlive)

human_count(room) ==
    Cardinality({i \in DOMAIN room.order :
                   room.order[i] \in DOMAIN room.players /\ ~room.players[room.order[i]].is_ai})

ai_ids(room) ==
    LET IsAi(uid) == uid \in DOMAIN room.players /\ room.players[uid].is_ai
    IN SelectSeq(room.order, IsAi)

\* _alloc_ai_identity_locked: the uid is "ai:<room_id>:<ai_seq>:<random suffix>"; the
\* random suffix only tells apart two AIs of one room with the same ai_seq, which
\* the counter already rules out, and is left out.
AiUid(room_id, seq) == "ai:" \o room_id \o ":" \o ToString(seq)

\* next_alive_after walking room.order instead of the alive players
next_alive_after_mut(room, user_id) ==
    IF Len(alive_ids(room)) <= 1 THEN NoUser
    ELSE IF ~Contains(room.order, user_id) THEN room.order[1]
    ELSE room.order[(IndexOf(room.order, user_id) % Len(room.order)) + 1]

\* _next_alive_after (None is the empty string here)
next_alive_after(room, user_id) ==
    LET alive == alive_ids(room)
    IN IF Len(alive) <= 1 THEN NoUser
       ELSE IF ~Contains(alive, user_id) THEN alive[1]
       ELSE alive[(IndexOf(alive, user_id) % Len(alive)) + 1]

\* normalize_indices that drops repeated values instead of refusing them
normalize_indices_dedup(raw_values, max_size, max_cards) ==
    LET values == raw_values
    IN IF values = <<>> THEN <<>>
       ELSE IF \E i \in DOMAIN values : values[i] <= 0 THEN <<>>
       ELSE IF \E i \in DOMAIN values : values[i] > max_size THEN <<>>
       ELSE IF max_cards >= 0 /\ Cardinality(Range(values)) > max_cards THEN <<>>
       ELSE SortAsc(Range(values))

\* normalize_indices without the limit on the number of cards
normalize_indices_nocap(raw_values, max_size, max_cards) ==
    LET values == raw_values
    IN IF values = <<>> THEN <<>>
       ELSE IF Len(values) # Cardinality(Range(values)) THEN <<>>
       ELSE IF \E i \in DOMAIN values : values[i] <= 0 THEN <<>>
       ELSE IF \E i \in DOMAIN values : values[i] > max_size THEN <<>>
       ELSE SortAsc(Range(values))

\* _normalize_indices on a list of integers; None is the empty list (both are falsy
\* to every caller).  max_cards < 0 stands for max_cards=None.
normalize_indices(raw_values, max_size, max_cards) ==
    LET values == raw_values
    IN IF values = <<>> THEN <<>>
       ELSE IF Len(values) # Cardinality(Range(values)) THEN <<>>
       ELSE IF \E i \in DOMAIN values : values[i] <= 0 THEN <<>>
       ELSE IF \E i \in DOMAIN values : values[i] > max_size THEN <<>>
       ELSE IF max_cards >= 0 /\ Len(values) > max_cards THEN <<>>
       ELSE SortAsc(Range(values))

-----------------------------------------------------------------------------
(* The engine's mutable state as one value, threaded through the *_locked helpers *)

World ==
    [rooms |-> rooms, player_room_index |-> player_room_index,
     play_timeout_tasks |-> play_timeout_tasks, wire_timeout_tasks |-> wire_timeout_tasks,
     ai_action_tasks |-> ai_action_tasks, outbox |-> <<>>]

\* One message of RoundUpdate.outbox: what it announces, about whom and, for a wire
\* cut, the colour it names
Event(kind, uid, color) == [kind |-> kind, uid |-> uid, color |-> color]
Emit(w, kind, uid) == [w EXCEPT !.outbox = Append(@, Event(kind, uid, ""))]
EmitCut(w, kind, uid, color) == [w EXCEPT !.outbox = Append(@, Event(kind, uid, color))]

\* _cancel_play_timeout_task / _cancel_wire_timeout_task / _cancel_ai_action_task_locked:
\* a cancelled task never runs its handler again
cancel_play_timeout_task(w, room_id) ==
    [w EXCEPT !.play_timeout_tasks = Pop(@, room_id)]
cancel_wire_timeout_task(w, room_id) ==
    [w EXCEPT !.wire_timeout_tasks = Pop(@, room_id)]
cancel_ai_action_task_locked(w, room_id) ==
    [w EXCEPT !.ai_action_tasks = Pop(@, room_id)]

TimerTask(token, target_uid) == [token |-> token, target_uid |-> target_uid, done |-> FALSE]

\* _arm_play_timeout_task / _arm_wire_timeout_task
arm_play_timeout_task(w, room_id, token, target_uid) ==
    [cancel_play_timeout_task(w, room_id) EXCEPT
        !.play_timeout_tasks = Put(@, room_id, TimerTask(token, target_uid))]
arm_wire_timeout_task(w, room_id, token, target_uid) ==
    [cancel_wire_timeout_task(w, room_id) EXCEPT
        !.wire_timeout_tasks = Put(@, room_id, TimerTask(token, target_uid))]

\* _drop_room_locked without the cancelling of the room's AI task
drop_room_locked_keep_ai(w, room_id) ==
    IF room_id \notin DOMAIN w.rooms THEN w
    ELSE LET w1 == [w EXCEPT !.rooms = Pop(@, room_id)]
             w2 == cancel_wire_timeout_task(cancel_play_timeout_task(w1, room_id), room_id)
         IN [w2 EXCEPT !.player_room_index =
                [uid \in {u \in DOMAIN @ : @[u] # room_id} |-> @[uid]]]

\* _drop_room_locked clearing the whole membership index
drop_room_locked_wipe_index(w, room_id) ==
    IF room_id \notin DOMAIN w.rooms THEN w
    ELSE LET w1 == [w EXCEPT !.rooms = Pop(@, room_id)]
             w2 == cancel_ai_action_task_locked(
                     cancel_wire_timeout_task(cancel_play_timeout_task(w1, room_id), room_id),
                     room_id)
         IN [w2 EXCEPT !.player_room_index = EmptyDict]

\* _drop_room_locked
drop_room_locked(w, room_id) ==
    IF room_id \notin DOMAIN w.rooms THEN w
    ELSE LET w1 == [w EXCEPT !.rooms = Pop(@, room_id)]
             w2 == cancel_ai_action_task_locked(
                     cancel_wire_timeout_task(cancel_play_timeout_task(w1, room_id), room_id),
                     room_id)
         IN [w2 EXCEPT !.player_room_index =
                [uid \in {u \in DOMAIN @ : @[u] # room_id} |-> @[uid]]]

\* announce_winner_and_close_locked without the call of _drop_room_locked
announce_winner_and_close_locked_mut(w, room_id) ==
    LET alive == alive_ids(w.rooms[room_id])
    IN IF alive # <<>> THEN Emit(w, "winner", alive[1]) ELSE Emit(w, "no_survivor", NoUser)

\* _announce_winner_and_close_locked
announce_winner_and_close_locked(w, room_id) ==
    LET alive == alive_ids(w.rooms[room_id])
        w1 == IF alive # <<>> THEN Emit(w, "winner", alive[1])
              ELSE Emit(w, "no_survivor", NoUser)
    IN drop_room_locked(w1, room_id)

-----------------------------------------------------------------------------
(* Game state machine.  rnd carries the outcomes of the random draws a handler   *)
(* may make: rnd.shuffle (random.shuffle), rnd.target (random.choice of          *)
(* TARGET_CARDS) and rnd.pick (random.choice of room.wire_options).              *)

SetRoom(w, room_id, room) == [w EXCEPT !.rooms = Put(@, room_id, room)]

\* bump_token with the increment left out
bump_token_mut(room) == room.action_token

\* "room.action_token += 1" of _apply_play_locked, _resolve_challenge_locked and
\* _start_new_round_locked
bump_token(room) == room.action_token + 1

\* _start_new_round_locked
start_new_round_locked(w, room_id, rnd) ==
    LET room == w.rooms[room_id]
        alive == alive_ids(room)
        hand_size == Max(1, FIXED_HAND_SIZE)
    IN IF Len(alive) <= 1 THEN announce_winner_and_close_locked(w, room_id)
       ELSE
         LET deck == build_round_deck(room, rnd.shuffle)
             need == hand_size * Len(alive)
         IN IF Len(deck) < need
            THEN drop_room_locked(Emit(w, "deck_abort", NoUser), room_id)
            ELSE
              LET dealt == [uid \in DOMAIN room.players |->
                              IF Contains(alive, uid)
                              THEN [room.players[uid] EXCEPT !.hand =
                                      SubSeq(deck, (IndexOf(alive, uid) - 1) * hand_size + 1,
                                             IndexOf(alive, uid) * hand_size)]
                              ELSE IF Contains(room.order, uid)
                              THEN [room.players[uid] EXCEPT !.hand = <<>>]
                              ELSE room.players[uid]]
                  starter == alive[(room.dealer_cursor % Len(alive)) + 1]
                  token == bump_token(room)
                  room2 == [room EXCEPT
                              !.players = dealt,
                              !.round_no = @ + 1,
                              !.target_card = rnd.target,
                              !.dealer_cursor = @ + 1,
                              !.current_turn_user_id = starter,
                              !.last_play = None,
                              !.phase = PHASE_PLAYING,
                              !.pending_wire_user_id = NoUser,
                              !.wire_options = <<>>,
                              !.wire_deadline_ts = DEADLINE_UNSET,
                              !.action_token = token,
                              !.play_deadline_ts = DEADLINE_SET]
                  w1 == arm_play_timeout_task(SetRoom(w, room_id, room2), room_id, token, starter)
              IN Emit(cancel_wire_timeout_task(w1, room_id), "round_start", starter)

\* is_liar with the wild card not honoured
is_liar_mut(room, last) ==
    \E i \in DOMAIN last.cards : last.cards[i] # room.target_card

\* the bluff test of _resolve_challenge_locked
is_liar(room, last) ==
    \E i \in DOMAIN last.cards : last.cards[i] \notin {room.target_card, CARD_MAGIC}

\* _resolve_challenge_locked
resolve_challenge_locked(w, room_id, challenger_id, rnd) ==
    LET room == w.rooms[room_id]
    IN IF room.last_play = None THEN w
       ELSE
         LET last == room.last_play[1]
             liar == is_liar(room, last)
             punished_id == IF liar THEN last.player_id ELSE challenger_id
             w0 == Emit(w, IF liar THEN "reveal_liar" ELSE "reveal_truthful", challenger_id)
         IN IF punished_id \notin DOMAIN room.players \/ ~room.players[punished_id].alive
            THEN start_new_round_locked(Emit(w0, "punished_anomaly", punished_id), room_id, rnd)
            ELSE
              LET punished == room.players[punished_id]
                  InRemaining(c) == Contains(punished.wires_remaining, c)
                  token == bump_token(room)
                  room2 == [room EXCEPT
                              !.phase = PHASE_AWAIT_WIRE,
                              !.pending_wire_user_id = punished_id,
                              !.wire_options = SelectSeq(WIRE_COLORS, InRemaining),
                              !.play_deadline_ts = DEADLINE_UNSET,
                              !.action_token = token,
                              !.wire_deadline_ts = DEADLINE_SET]
                  w1 == cancel_play_timeout_task(SetRoom(w0, room_id, room2), room_id)
              IN Emit(arm_wire_timeout_task(w1, room_id, token, punished_id),
                      "await_wire", punished_id)

\* is_exploded without the comparison with the bomb colour
is_exploded_mut(player, options, color) ==
    Len(options) = 1

\* the elimination test of _apply_wire_cut_locked
is_exploded(player, options, color) ==
    color = player.bomb_color \/ Len(options) = 1

\* _apply_wire_cut_locked without lines 1604-1605: the colour cut stays among the wires
apply_wire_cut_locked_keepwire(w, room_id, user_id, color, rnd) ==
    LET room == w.rooms[room_id]
    IN IF user_id \notin DOMAIN room.players THEN w
       ELSE IF ~Contains(room.wire_options, color) THEN w
       ELSE
         LET player == room.players[user_id]
             options == room.wire_options
             exploded == is_exploded(player, options, color)
             player1 == player
             player2 == IF exploded THEN [player1 EXCEPT !.alive = FALSE, !.hand = <<>>]
                        ELSE player1
             room2 == [room EXCEPT
                         !.players = Put(@, user_id, player2),
                         !.phase = PHASE_PLAYING,
                         !.pending_wire_user_id = NoUser,
                         !.wire_options = <<>>,
                         !.wire_deadline_ts = DEADLINE_UNSET]
             w1 == cancel_wire_timeout_task(SetRoom(w, room_id, room2), room_id)
             w2 == EmitCut(w1, IF exploded THEN "exploded" ELSE "safe", user_id, color)
         IN IF Len(alive_ids(room2)) <= 1
            THEN announce_winner_and_close_locked(w2, room_id)
            ELSE start_new_round_locked(w2, room_id, rnd)

\* _apply_wire_cut_locked
apply_wire_cut_locked(w, room_id, user_id, color, rnd) ==
    LET room == w.rooms[room_id]
    IN IF user_id \notin DOMAIN room.players THEN w
       ELSE IF ~Contains(room.wire_options, color) THEN w
       ELSE
         LET player == room.players[user_id]
             options == room.wire_options
             exploded == is_exploded(player, options, color)
             player1 == [player EXCEPT !.wires_remaining = Remove(@, color)]
             player2 == IF exploded THEN [player1 EXCEPT !.alive = FALSE, !.hand = <<>>]
                        ELSE player1
             room2 == [room EXCEPT
                         !.players = Put(@, user_id, player2),
                         !.phase = PHASE_PLAYING,
                         !.pending_wire_user_id = NoUser,
                         !.wire_options = <<>>,
                         !.wire_deadline_ts = DEADLINE_UNSET]
             w1 == cancel_wire_timeout_task(SetRoom(w, room_id, room2), room_id)
             w2 == EmitCut(w1, IF exploded THEN "exploded" ELSE "safe", user_id, color)
         IN IF Len(alive_ids(room2)) <= 1
            THEN announce_winner_and_close_locked(w2, room_id)
            ELSE start_new_round_locked(w2, room_id, rnd)

\* _apply_play_locked without the forced showdown of lines 1490-1495
apply_play_locked_noshowdown(w, room_id, user_id, indices, rnd) ==
    LET room == w.rooms[room_id]
    IN IF user_id \notin DOMAIN room.players \/ ~room.players[user_id].alive THEN w
       ELSE
         LET player == room.players[user_id]
             max_cards_limit == IF player.is_ai THEN ai_max_play_cards ELSE Len(player.hand)
             normalized == normalize_indices(indices, Len(player.hand), max_cards_limit)
         IN IF normalized = <<>> THEN w
            ELSE
              LET played_cards == [i \in DOMAIN normalized |-> player.hand[normalized[i]]]
                  Kept(i) == ~Contains(normalized, i)
                  kept_idx == SelectSeq([i \in DOMAIN player.hand |-> i], Kept)
                  hand2 == [i \in DOMAIN kept_idx |-> player.hand[kept_idx[i]]]
                  room1 == [room EXCEPT
                              !.players = Put(@, user_id, [player EXCEPT !.hand = hand2]),
                              !.last_play = Some(LastPlay(user_id, played_cards, room.target_card))]
                  next_uid == next_alive_after(room1, user_id)
                  w1 == SetRoom(w, room_id, room1)
              IN IF next_uid = NoUser THEN announce_winner_and_close_locked(w1, room_id)
                 ELSE
                   LET token == bump_token(room1)
                       room2 == [room1 EXCEPT
                                   !.current_turn_user_id = next_uid,
                                   !.phase = PHASE_PLAYING,
                                   !.pending_wire_user_id = NoUser,
                                   !.wire_options = <<>>,
                                   !.wire_deadline_ts = DEADLINE_UNSET,
                                   !.action_token = token,
                                   !.play_deadline_ts = DEADLINE_SET]
                   IN arm_play_timeout_task(Emit(SetRoom(w1, room_id, room2), "play", user_id),
                                            room_id, token, next_uid)

\* _display_player_name: the player's name, tagged for an AI seat (the name is
\* fixed per player and stands as the uid)
display_player_name(room, user_id) ==
    IF user_id \notin DOMAIN room.players THEN <<user_id>>
    ELSE IF room.players[user_id].is_ai THEN <<user_id, "[AI]">>
    ELSE <<user_id>>

\* the announcement naming the faces that were laid
play_announce_faces(room, user_id, played_cards, next_uid, taunt_line) ==
    [pname |-> display_player_name(room, user_id),
     card_count |-> played_cards,
     declared |-> room.target_card,
     next_name |-> display_player_name(room, next_uid),
     next_is_ai |-> next_uid \in DOMAIN room.players /\ room.players[next_uid].is_ai,
     taunt_line |-> taunt_line]

\* The group message of _apply_play_locked (1474-1488) by the values its text is
\* built from: announce holds pname, card_count and declared, step holds next_name
\* and differs for an AI seat
play_announce(room, user_id, played_cards, next_uid, taunt_line) ==
    [pname |-> display_player_name(room, user_id),
     card_count |-> Len(played_cards),
     declared |-> room.target_card,
     next_name |-> display_player_name(room, next_uid),
     next_is_ai |-> next_uid \in DOMAIN room.players /\ room.players[next_uid].is_ai,
     taunt_line |-> taunt_line]

\* What _apply_play_locked appends to the group outbox while the actor keeps cards:
\* nothing for a play that is refused, else the one announcement.  A play that
\* ends the match or empties the hand is None here.
play_outbox(room, user_id, indices, taunt_line) ==
    IF user_id \notin DOMAIN room.players \/ ~room.players[user_id].alive THEN Some(<<>>)
    ELSE
      LET player == room.players[user_id]
          max_cards_limit == IF player.is_ai THEN ai_max_play_cards ELSE Len(player.hand)
          normalized == normalize_indices(indices, Len(player.hand), max_cards_limit)
      IN IF normalized = <<>> THEN Some(<<>>)
         ELSE
           LET played_cards == [i \in DOMAIN normalized |-> player.hand[normalized[i]]]
               next_uid == next_alive_after(room, user_id)
           IN IF next_uid = NoUser \/ Len(normalized) = Len(player.hand) THEN None
              ELSE Some(<<play_announce(room, user_id, played_cards, next_uid, taunt_line)>>)

\* _apply_play_locked
apply_play_locked(w, room_id, user_id, indices, rnd) ==
    LET room == w.rooms[room_id]
    IN IF user_id \notin DOMAIN room.players \/ ~room.players[user_id].alive THEN w
       ELSE
         LET player == room.players[user_id]
             max_cards_limit == IF player.is_ai THEN ai_max_play_cards ELSE Len(player.hand)
             normalized == normalize_indices(indices, Len(player.hand), max_cards_limit)
         IN IF normalized = <<>> THEN w
            ELSE
              LET played_cards == [i \in DOMAIN normalized |-> player.hand[normalized[i]]]
                  Kept(i) == ~Contains(normalized, i)
                  kept_idx == SelectSeq([i \in DOMAIN player.hand |-> i], Kept)
                  hand2 == [i \in DOMAIN kept_idx |-> player.hand[kept_idx[i]]]
                  room1 == [room EXCEPT
                              !.players = Put(@, user_id, [player EXCEPT !.hand = hand2]),
                              !.last_play = Some(LastPlay(user_id, played_cards, room.target_card))]
                  next_uid == next_alive_after(room1, user_id)
                  w1 == SetRoom(w, room_id, room1)
              IN IF next_uid = NoUser THEN announce_winner_and_close_locked(w1, room_id)
                 ELSE IF Len(hand2) = 0
                 THEN resolve_challenge_locked(
                        Emit(Emit(SetRoom(w1, room_id,
                                          [room1 EXCEPT !.current_turn_user_id = next_uid]),
                                  "play", user_id),
                             "auto_challenge", next_uid),
                        room_id, next_uid, rnd)
                 ELSE
                   LET token == bump_token(room1)
                       room2 == [room1 EXCEPT
                                   !.current_turn_user_id = next_uid,
                                   !.phase = PHASE_PLAYING,
                                   !.pending_wire_user_id = NoUser,
                                   !.wire_options = <<>>,
                                   !.wire_deadline_ts = DEADLINE_UNSET,
                                   !.action_token = token,
                                   !.play_deadline_ts = DEADLINE_SET]
                   IN arm_play_timeout_task(Emit(SetRoom(w1, room_id, room2), "play", user_id),
                                            room_id, token, next_uid)

\* The guards of _handle_play_timeout, lines 1822-1836 (the wall-clock guard of
\* line 1831 holds whenever the timer's sleep has elapsed).
play_timeout_applies(w, room_id, token, target_uid) ==
    /\ room_id \in DOMAIN w.rooms
    /\ w.rooms[room_id].phase = PHASE_PLAYING
    /\ w.rooms[room_id].action_token = token
    /\ w.rooms[room_id].current_turn_user_id = target_uid
    /\ target_uid \in DOMAIN w.rooms[room_id].players
    /\ w.rooms[room_id].players[target_uid].alive

\* handle_play_timeout that forgets the elimination and only starts the next round
handle_play_timeout_mut(w, room_id, token, target_uid, rnd) ==
    start_new_round_locked(cancel_play_timeout_task(w, room_id), room_id, rnd)

\* handle_play_timeout that locks the deck anew for the players left alive
handle_play_timeout_relock(w, room_id, token, target_uid, rnd) ==
    IF ~play_timeout_applies(w, room_id, token, target_uid) THEN w
    ELSE
      LET room == w.rooms[room_id]
          room1 == [room EXCEPT
                      !.players[target_uid].alive = FALSE,
                      !.players[target_uid].hand = <<>>,
                      !.play_deadline_ts = DEADLINE_UNSET]
          counts == build_locked_deck_counts(Len(alive_ids(room1)))
          room2 == [room1 EXCEPT !.initial_player_count = Len(alive_ids(room1)),
                                 !.round_deck_counts = counts,
                                 !.round_deck_total = DeckTotal(counts)]
          w1 == Emit(cancel_play_timeout_task(SetRoom(w, room_id, room2), room_id),
                     "timeout_eliminated", target_uid)
      IN IF Len(alive_ids(room2)) <= 1
         THEN announce_winner_and_close_locked(w1, room_id)
         ELSE start_new_round_locked(w1, room_id, rnd)

\* _handle_play_timeout, the block under state_lock
handle_play_timeout(w, room_id, token, target_uid, rnd) ==
    IF ~play_timeout_applies(w, room_id, token, target_uid) THEN w
    ELSE
      LET room == w.rooms[room_id]
          room2 == [room EXCEPT
                      !.players[target_uid].alive = FALSE,
                      !.players[target_uid].hand = <<>>,
                      !.play_deadline_ts = DEADLINE_UNSET]
          w1 == Emit(cancel_play_timeout_task(SetRoom(w, room_id, room2), room_id),
                     "timeout_eliminated", target_uid)
      IN IF Len(alive_ids(room2)) <= 1
         THEN announce_winner_and_close_locked(w1, room_id)
         ELSE start_new_round_locked(w1, room_id, rnd)

\* The guards of _handle_wire_timeout, lines 1877-1887
wire_timeout_applies(w, room_id, token, target_uid) ==
    /\ room_id \in DOMAIN w.rooms
    /\ w.rooms[room_id].phase = PHASE_AWAIT_WIRE
    /\ w.rooms[room_id].action_token = token
    /\ w.rooms[room_id].pending_wire_user_id = target_uid

\* _handle_wire_timeout with the colour drawn from all wire colours
handle_wire_timeout_anycolor(w, room_id, token, target_uid, rnd) ==
    IF ~wire_timeout_applies(w, room_id, token, target_uid) THEN w
    ELSE
      LET room == w.rooms[room_id]
      IN IF room.wire_options = <<>>
         THEN start_new_round_locked(w, room_id, rnd)
         ELSE LET picked == WIRE_COLORS[((rnd.pick - 1) % Len(WIRE_COLORS)) + 1]
              IN apply_wire_cut_locked(w, room_id, target_uid, picked, rnd)

\* _handle_wire_timeout, the block under state_lock
handle_wire_timeout(w, room_id, token, target_uid, rnd) ==
    IF ~wire_timeout_applies(w, room_id, token, target_uid) THEN w
    ELSE
      LET room == w.rooms[room_id]
      IN IF room.wire_options = <<>>
         THEN start_new_round_locked(w, room_id, rnd)
         ELSE LET picked == room.wire_options[((rnd.pick - 1) % Len(room.wire_options)) + 1]
              IN apply_wire_cut_locked(w, room_id, target_uid, picked, rnd)

-----------------------------------------------------------------------------
(* Persistence and the end of a locked block *)

\* _save_state_locked: the payload handed to StateRepository.save
Snapshot(w) == [rooms |-> w.rooms, player_room_index |-> w.player_room_index]

\* The end of a block that leaves out its "await self._save_state_locked()"
Commit_nosave(w) ==
    /\ rooms' = w.rooms
    /\ player_room_index' = w.player_room_index
    /\ play_timeout_tasks' = w.play_timeout_tasks
    /\ wire_timeout_tasks' = w.wire_timeout_tasks
    /\ ai_action_tasks' = w.ai_action_tasks
    /\ saved' = saved
    /\ last_update' = w.outbox

\* The end of a block that changed state: the fields of self are as in w, and the
\* block's "await self._save_state_locked()" has run.
Commit(w) ==
    /\ rooms' = w.rooms
    /\ player_room_index' = w.player_room_index
    /\ play_timeout_tasks' = w.play_timeout_tasks
    /\ wire_timeout_tasks' = w.wire_timeout_tasks
    /\ ai_action_tasks' = w.ai_action_tasks
    /\ saved' = Snapshot(w)
    /\ last_update' = w.outbox

\* A command answered with an error text: nothing is assigned or saved.
Reject ==
    UNCHANGED <<rooms, player_room_index, play_timeout_tasks, wire_timeout_tasks,
                ai_action_tasks, saved, last_update>>

\* PlayerState.to_dict
player_to_dict(p) ==
    [is_ai |-> p.is_ai, alive |-> p.alive, hand |-> p.hand, bomb_color |-> p.bomb_color,
     wires_remaining |-> p.wires_remaining, dm_reachable |-> p.dm_reachable]

\* PlayerState.from_dict
player_from_dict(data) ==
    [is_ai |-> data.is_ai, alive |-> data.alive, hand |-> data.hand,
     bomb_color |-> data.bomb_color, wires_remaining |-> data.wires_remaining,
     dm_reachable |-> data.dm_reachable]

\* RoomState.to_dict; last_play is None or LastPlay.to_dict()
room_to_dict(room) ==
    [owner_id |-> room.owner_id, phase |-> room.phase, round_no |-> room.round_no,
     dealer_cursor |-> room.dealer_cursor,
     players |-> [uid \in DOMAIN room.players |-> player_to_dict(room.players[uid])],
     order |-> room.order, target_card |-> room.target_card,
     current_turn_user_id |-> room.current_turn_user_id,
     last_play |-> IF room.last_play # None
                   THEN Some(LastPlay(room.last_play[1].player_id, room.last_play[1].cards,
                                      room.last_play[1].declared_target))
                   ELSE None,
     pending_wire_user_id |-> room.pending_wire_user_id, wire_options |-> room.wire_options,
     initial_player_count |-> room.initial_player_count,
     round_deck_total |-> room.round_deck_total, round_deck_counts |-> room.round_deck_counts,
     play_deadline_ts |-> room.play_deadline_ts, wire_deadline_ts |-> room.wire_deadline_ts,
     action_token |-> room.action_token, ai_seq |-> room.ai_seq]

\* RoomState.from_dict
room_from_dict(data) ==
    [owner_id |-> data.owner_id, phase |-> data.phase, round_no |-> data.round_no,
     dealer_cursor |-> data.dealer_cursor,
     players |-> [uid \in DOMAIN data.players |-> player_from_dict(data.players[uid])],
     order |-> data.order, target_card |-> data.target_card,
     current_turn_user_id |-> data.current_turn_user_id,
     last_play |-> IF data.last_play # None
                   THEN Some(LastPlay(data.last_play[1].player_id, data.last_play[1].cards,
                                      data.last_play[1].declared_target))
                   ELSE None,
     pending_wire_user_id |-> data.pending_wire_user_id, wire_options |-> data.wire_options,
     initial_player_count |-> data.initial_player_count,
     round_deck_total |-> data.round_deck_total, round_deck_counts |-> data.round_deck_counts,
     play_deadline_ts |-> data.play_deadline_ts, wire_deadline_ts |-> data.wire_deadline_ts,
     action_token |-> data.action_token, ai_seq |-> data.ai_seq]

\* the "for uid in room.order" loop that builds cleaned_order
RECURSIVE CleanedOrder(_, _, _)
CleanedOrder(order, players, seen) ==
    IF order = <<>> THEN <<>>
    ELSE IF Head(order) \in DOMAIN players /\ Head(order) \notin seen
    THEN <<Head(order)>> \o CleanedOrder(Tail(order), players, seen \cup {Head(order)})
    ELSE CleanedOrder(Tail(order), players, seen)

\* list(room.players.keys()): the players in the order the snapshot lists them, which
\* the players mapping here does not keep; any order of them
KeysOf(players) ==
    CHOOSE seq \in [1..Cardinality(DOMAIN players) -> DOMAIN players] :
       Range(seq) = DOMAIN players

\* "if room.current_turn_user_id and room.current_turn_user_id not in room.players"
repair_turn_holder(room, order) ==
    IF room.current_turn_user_id # NoUser /\ room.current_turn_user_id \notin DOMAIN room.players
    THEN IF order # <<>> THEN order[1] ELSE NoUser
    ELSE room.current_turn_user_id

\* _normalize_room_state.  The AI labels are "AI-<n>" with n <= ai_seq and distinct, as
\* _alloc_ai_identity_locked hands them out, so the loop over the players leaves
\* ai_seq as it is and sets dm_reachable of the AI players.
normalize_room_state(room) ==
    LET cleaned == CleanedOrder(room.order, room.players, {})
        order == IF cleaned = <<>> THEN KeysOf(room.players) ELSE cleaned
        players == [uid \in DOMAIN room.players |->
                      IF Contains(order, uid) /\ room.players[uid].is_ai
                      THEN [room.players[uid] EXCEPT !.dm_reachable = TRUE]
                      ELSE room.players[uid]]
        owner1 == IF room.owner_id \notin DOMAIN players /\ order # <<>>
                  THEN order[1] ELSE room.owner_id
        IsHuman(uid) == ~players[uid].is_ai
        humans == SelectSeq(order, IsHuman)
        owner2 == IF owner1 \in DOMAIN players /\ players[owner1].is_ai /\ humans # <<>>
                  THEN humans[1] ELSE owner1
        wire_lost == room.pending_wire_user_id # NoUser
                       /\ room.pending_wire_user_id \notin DOMAIN players
        claim_lost == room.last_play # None /\ room.last_play[1].player_id \notin DOMAIN players
        initial == IF room.initial_player_count <= 0 /\ order # <<>>
                   THEN Len(order) ELSE room.initial_player_count
        need_rebuild == room.round_deck_total <= 0 \/ room.round_deck_counts = EmptyDict
        rebuild == need_rebuild /\ room.phase # PHASE_WAITING
        base_players == IF initial > 0 THEN initial
                        ELSE Max(MIN_PLAYERS, Min(MAX_PLAYERS, Len(order)))
        counts == IF rebuild THEN build_locked_deck_counts(base_players)
                  ELSE room.round_deck_counts
    IN [room EXCEPT
          !.order = order,
          !.players = players,
          !.owner_id = owner2,
          !.current_turn_user_id = repair_turn_holder(room, order),
          !.pending_wire_user_id = IF wire_lost THEN NoUser ELSE @,
          !.wire_options = IF wire_lost THEN <<>> ELSE @,
          !.wire_deadline_ts = IF wire_lost THEN DEADLINE_UNSET ELSE @,
          !.last_play = IF claim_lost THEN None ELSE @,
          !.initial_player_count = initial,
          !.round_deck_counts = counts,
          !.round_deck_total = IF rebuild THEN DeckTotal(counts) ELSE @]

\* the payload of _save_state_locked as StateRepository.save writes it
Payload(w) ==
    [rooms |-> [rid \in DOMAIN w.rooms |-> room_to_dict(w.rooms[rid])],
     player_room_index |-> w.player_room_index]

\* _load_state: the rooms of the payload, each normalized, and the index rebuilt from
\* the human players of each room's order (a player listed by two rooms would get the
\* room read last; here any of them)
load_state(raw) ==
    LET loaded_rooms == [rid \in DOMAIN raw.rooms |->
                           normalize_room_state(room_from_dict(raw.rooms[rid]))]
        Seated(uid, rid) ==
           /\ Contains(loaded_rooms[rid].order, uid)
           /\ uid \in DOMAIN loaded_rooms[rid].players
           /\ ~loaded_rooms[rid].players[uid].is_ai
        seated == {uid \in UNION {Range(loaded_rooms[rid].order) : rid \in DOMAIN loaded_rooms} :
                     \E rid \in DOMAIN loaded_rooms : Seated(uid, rid)}
    IN [rooms |-> loaded_rooms,
        player_room_index |->
           [uid \in seated |-> CHOOSE rid \in DOMAIN loaded_rooms : Seated(uid, rid)]]

-----------------------------------------------------------------------------
(* StateRepository: the state file and the temporary file beside it.  The text  *)
(* json.dump writes is a sequence of four pieces, written one after another; a  *)
(* file holds a prefix of it.                                                    *)

NoFile == [exists |-> FALSE, text |-> <<>>]
File(text) == [exists |-> TRUE, text |-> text]

\* json.dump(payload, f): the pieces of the text, in the order written
json_dump(payload) == <<"{", payload.rooms, payload.player_room_index, "}">>

\* json.load(f): the payload of a complete text; a text cut short raises
json_load(text) ==
    IF Len(text) = Len(json_dump([rooms |-> EmptyDict, player_room_index |-> EmptyDict]))
       /\ text[1] = "{" /\ text[Len(text)] = "}"
    THEN Some([rooms |-> text[2], player_room_index |-> text[3]])
    ELSE None

\* StateRepository.load: None when the file does not exist or does not parse
repository_load(d) ==
    IF ~d.state_file.exists THEN None ELSE json_load(d.state_file.text)

\* No file written yet and no write under way.  previous and writing remember the
\* state file as the last write found it and the payload that write was given.
DiskFresh ==
    [state_file |-> NoFile, tmp_file |-> NoFile, pc |-> "idle",
     handed |-> [rooms |-> EmptyDict, player_room_index |-> EmptyDict],
     previous |-> NoFile,
     writing |-> [rooms |-> EmptyDict, player_room_index |-> EmptyDict]]

\* StateRepository.save with the state file itself opened for writing
save_open_inplace(d, payload) ==
    [d EXCEPT !.state_file = File(<<>>), !.pc = "writing",
              !.previous = d.state_file, !.writing = payload]

\* StateRepository.save, line 308: tmp.open("w") creates or truncates the .tmp file
save_open(d, payload) ==
    [d EXCEPT !.tmp_file = File(<<>>), !.pc = "writing",
              !.previous = d.state_file, !.writing = payload]

\* line 309: json.dump writes the next piece to the .tmp file
save_write(d) ==
    [d EXCEPT !.tmp_file.text = Append(@, json_dump(d.writing)[Len(@) + 1])]

\* the end of the with block: the .tmp file is closed, complete
save_close(d) == [d EXCEPT !.pc = "closed"]

\* line 310: os.replace(tmp, self.state_path)
save_replace(d) ==
    [d EXCEPT !.state_file = d.tmp_file, !.tmp_file = NoFile, !.pc = "idle",
              !.handed = d.writing]

\* the write raises (lines 308-309) and _save_state_locked logs it, lines 2723-2725
save_failed(d) == [d EXCEPT !.pc = "idle", !.handed = d.writing]

-----------------------------------------------------------------------------
(* Group commands.  For each command, <name>_allowed is the conjunction of the    *)
(* checks that precede its first assignment and the lower-case operator is the   *)
(* rest of its locked block.                                                     *)

\* HasConflict that never finds the sender in another room
HasConflict_mut(w, user_id, room_id) == FALSE

\* "conflict_room = self.player_room_index.get(user_id)" and its test, in
\* _cmd_create_room and _cmd_join_room
HasConflict(w, user_id, room_id) ==
    /\ user_id \in DOMAIN w.player_room_index
    /\ w.player_room_index[user_id] # ""
    /\ w.player_room_index[user_id] # room_id

\* _cmd_create_room
create_room_allowed(w, user_id, room_id) ==
    /\ ~HasConflict(w, user_id, room_id)
    /\ room_id \notin DOMAIN w.rooms

create_room(w, user_id, room_id) ==
    LET room == [RoomState(user_id) EXCEPT
                   !.players = Put(@, user_id, PlayerState(FALSE)),
                   !.order = Append(@, user_id)]
    IN [SetRoom(w, room_id, room) EXCEPT !.player_room_index = Put(@, user_id, room_id)]

CmdCreateRoom(user_id, room_id) ==
    IF create_room_allowed(World, user_id, room_id)
    THEN Commit(create_room(World, user_id, room_id))
    ELSE Reject

\* join_room_allowed without the test of the room being full
join_room_allowed_nocap(w, user_id, room_id) ==
    /\ room_id \in DOMAIN w.rooms
    /\ ~HasConflict(w, user_id, room_id)
    /\ w.rooms[room_id].phase = PHASE_WAITING
    /\ user_id \notin DOMAIN w.rooms[room_id].players

\* _cmd_join_room
join_room_allowed(w, user_id, room_id) ==
    /\ room_id \in DOMAIN w.rooms
    /\ ~HasConflict(w, user_id, room_id)
    /\ w.rooms[room_id].phase = PHASE_WAITING
    /\ user_id \notin DOMAIN w.rooms[room_id].players
    /\ Len(w.rooms[room_id].order) < MAX_PLAYERS

join_room(w, user_id, room_id) ==
    LET room == [w.rooms[room_id] EXCEPT
                   !.players = Put(@, user_id, PlayerState(FALSE)),
                   !.order = Append(@, user_id)]
    IN [SetRoom(w, room_id, room) EXCEPT !.player_room_index = Put(@, user_id, room_id)]

CmdJoinRoom(user_id, room_id) ==
    IF join_room_allowed(World, user_id, room_id)
    THEN Commit(join_room(World, user_id, room_id))
    ELSE Reject

\* the "for _ in range(add_n)" loop of _cmd_add_ai; every AI added by one command
\* draws the bomb colour bomb
RECURSIVE AddAiSeats(_, _, _, _)
AddAiSeats(room, room_id, add_n, bomb) ==
    IF add_n <= 0 THEN room
    ELSE LET seq == room.ai_seq + 1
             ai_uid == AiUid(room_id, seq)
             ai_player == [PlayerState(TRUE) EXCEPT !.bomb_color = bomb]
         IN AddAiSeats([room EXCEPT !.ai_seq = seq,
                                    !.players = Put(@, ai_uid, ai_player),
                                    !.order = Append(@, ai_uid)],
                       room_id, add_n - 1, bomb)

\* _cmd_add_ai; count is the count argument read by _parse_count_arg (0 when it
\* is not a positive integer)
add_ai_allowed(w, user_id, room_id, count) ==
    /\ ai_enabled
    /\ count > 0
    /\ room_id \in DOMAIN w.rooms
    /\ w.rooms[room_id].phase = PHASE_WAITING
    /\ user_id = w.rooms[room_id].owner_id
    /\ human_count(w.rooms[room_id]) > 0
    /\ Max(0, MAX_PLAYERS - Len(w.rooms[room_id].order)) > 0

add_ai(w, room_id, count, bomb) ==
    LET available == Max(0, MAX_PLAYERS - Len(w.rooms[room_id].order))
        add_n == Min(count, available)
    IN SetRoom(w, room_id, AddAiSeats(w.rooms[room_id], room_id, add_n, bomb))

CmdAddAi(user_id, room_id, count, bomb) ==
    IF add_ai_allowed(World, user_id, room_id, count)
    THEN Commit(add_ai(World, room_id, count, bomb))
    ELSE Reject

\* the "for rid in remove_ids" loop of _cmd_remove_ai
RECURSIVE RemoveSeats(_, _, _)
RemoveSeats(w, room_id, remove_ids) ==
    IF remove_ids = <<>> THEN w
    ELSE LET rid == Head(remove_ids)
             NotRid(uid) == uid # rid
             room == [w.rooms[room_id] EXCEPT !.players = Pop(@, rid),
                                              !.order = SelectSeq(@, NotRid)]
         IN RemoveSeats([SetRoom(w, room_id, room) EXCEPT
                           !.player_room_index = Pop(@, rid)],
                        room_id, Tail(remove_ids))

Reversed(s) == [i \in DOMAIN s |-> s[Len(s) + 1 - i]]

\* _cmd_remove_ai
remove_ai_allowed(w, user_id, room_id, count) ==
    /\ count > 0
    /\ room_id \in DOMAIN w.rooms
    /\ w.rooms[room_id].phase = PHASE_WAITING
    /\ user_id = w.rooms[room_id].owner_id
    /\ human_count(w.rooms[room_id]) > 0
    /\ ai_ids(w.rooms[room_id]) # <<>>

\* remove_ai taking the AI seats in the order of the room, the oldest first
remove_ai_oldest(w, room_id, count) ==
    LET ids == ai_ids(w.rooms[room_id])
        remove_n == Min(count, Len(ids))
    IN RemoveSeats(w, room_id, SubSeq(ids, 1, remove_n))

remove_ai(w, room_id, count) ==
    LET ids == ai_ids(w.rooms[room_id])
        remove_n == Min(count, Len(ids))
    IN RemoveSeats(w, room_id, SubSeq(Reversed(ids), 1, remove_n))

CmdRemoveAi(user_id, room_id, count) ==
    IF remove_ai_allowed(World, user_id, room_id, count)
    THEN Commit(remove_ai(World, room_id, count))
    ELSE Reject

\* start_allowed without the lower bound on the number of members
start_allowed_mut(w, user_id, room_id) ==
    /\ room_id \in DOMAIN w.rooms
    /\ w.rooms[room_id].phase = PHASE_WAITING
    /\ user_id = w.rooms[room_id].owner_id
    /\ Len(w.rooms[room_id].order) <= MAX_PLAYERS
    /\ human_count(w.rooms[room_id]) > 0
    /\ (ai_enabled \/ ai_ids(w.rooms[room_id]) = <<>>)

\* The checks both locked blocks of _cmd_start_room make
start_allowed(w, user_id, room_id) ==
    /\ room_id \in DOMAIN w.rooms
    /\ w.rooms[room_id].phase = PHASE_WAITING
    /\ user_id = w.rooms[room_id].owner_id
    /\ Len(w.rooms[room_id].order) >= MIN_PLAYERS
    /\ Len(w.rooms[room_id].order) <= MAX_PLAYERS
    /\ human_count(w.rooms[room_id]) > 0
    /\ (ai_enabled \/ ai_ids(w.rooms[room_id]) = <<>>)

\* The second locked block of _cmd_start_room.  reachable is the set of humans whose
\* private-chat probe succeeded; cursor and bombs are the outcomes of random.randint
\* and of each player's random.choice(WIRE_COLORS).
start_room(w, room_id, reachable, cursor, bombs, rnd) ==
    LET room == w.rooms[room_id]
        need_check == require_dm_reachable_before_start
        IsFailed(uid) == ~room.players[uid].is_ai /\ uid \notin reachable
        failed == IF need_check THEN SelectSeq(room.order, IsFailed) ELSE <<>>
        probed == IF need_check
                  THEN [room EXCEPT !.players =
                          [uid \in DOMAIN room.players |->
                             IF Contains(room.order, uid)
                             THEN [room.players[uid] EXCEPT
                                     !.dm_reachable = room.players[uid].is_ai \/ uid \in reachable]
                             ELSE room.players[uid]]]
                  ELSE room
    IN IF failed # <<>>
       THEN Emit(SetRoom(w, room_id, probed), "unreachable", failed[1])
       ELSE
         LET n == Len(room.order)
             counts == build_locked_deck_counts(n)
             room2 == [probed EXCEPT
                         !.phase = PHASE_PLAYING,
                         !.round_no = 0,
                         !.dealer_cursor = cursor,
                         !.last_play = None,
                         !.pending_wire_user_id = NoUser,
                         !.wire_options = <<>>,
                         !.initial_player_count = n,
                         !.round_deck_counts = counts,
                         !.round_deck_total = DeckTotal(counts),
                         !.play_deadline_ts = DEADLINE_UNSET,
                         !.wire_deadline_ts = DEADLINE_UNSET,
                         !.players =
                            [uid \in DOMAIN probed.players |->
                               IF Contains(room.order, uid)
                               THEN [reset_for_new_game(probed.players[uid], bombs[uid]) EXCEPT
                                       !.dm_reachable = probed.players[uid].is_ai \/ ~need_check]
                               ELSE probed.players[uid]]]
         IN start_new_round_locked(SetRoom(w, room_id, room2), room_id, rnd)

\* _cmd_start_room with nothing interleaved between its two locked blocks
CmdStartRoom(user_id, room_id, reachable, cursors, bombsets, rnds) ==
    IF start_allowed(World, user_id, room_id)
    THEN \E cursor \in cursors, bombs \in bombsets, rnd \in rnds :
            Commit(start_room(World, room_id, reachable, cursor, bombs, rnd))
    ELSE Reject

\* The locals a call of _cmd_start_room carries from its first locked block to its
\* second: the sender, the room id and probe_targets.  members is the length of
\* room.order that the first block saw; the code does not keep it.
StartCall(user_id, room_id, probe_targets, members) ==
    [user_id |-> user_id, room_id |-> room_id, probe_targets |-> probe_targets,
     members |-> members]

\* probe_targets of the first locked block
start_probe_targets(room) ==
    LET IsHuman(uid) == uid \in DOMAIN room.players /\ ~room.players[uid].is_ai
    IN IF require_dm_reachable_before_start THEN SelectSeq(room.order, IsHuman) ELSE <<>>

\* the second locked block trusting the checks of the first
start_apply_allowed_unchecked(w, user_id, room_id) ==
    room_id \in DOMAIN w.rooms

\* The checks that open the second locked block of _cmd_start_room
start_apply_allowed(w, user_id, room_id) ==
    /\ room_id \in DOMAIN w.rooms
    /\ w.rooms[room_id].phase = PHASE_WAITING
    /\ user_id = w.rooms[room_id].owner_id
    /\ ~(Len(w.rooms[room_id].order) < 3 \/ Len(w.rooms[room_id].order) > 5)
    /\ human_count(w.rooms[room_id]) > 0
    /\ (ai_enabled \/ ai_ids(w.rooms[room_id]) = <<>>)

\* _cmd_challenge
challenge_allowed(w, user_id, room_id) ==
    /\ room_id \in DOMAIN w.rooms
    /\ w.rooms[room_id].phase = PHASE_PLAYING
    /\ w.rooms[room_id].last_play # None
    /\ user_id = w.rooms[room_id].current_turn_user_id

CmdChallenge(user_id, room_id, rnds) ==
    IF challenge_allowed(World, user_id, room_id)
    THEN \E rnd \in rnds : Commit(resolve_challenge_locked(World, room_id, user_id, rnd))
    ELSE Reject

\* _resolve_wire_arg: arg is "1".."3" (a key of wire_index_map, which numbers
\* wire_options from 1) or a colour name; "" stands for None
resolve_wire_arg(arg, room) ==
    LET keys == <<"1", "2", "3">>
    IN IF \E i \in DOMAIN room.wire_options : keys[i] = arg
       THEN room.wire_options[CHOOSE i \in DOMAIN room.wire_options : keys[i] = arg]
       ELSE IF Contains(WIRE_COLORS, arg) /\ Contains(room.wire_options, arg) THEN arg
       ELSE ""

\* _cmd_cut_wire
cut_wire_allowed(w, user_id, room_id, arg) ==
    /\ room_id \in DOMAIN w.rooms
    /\ w.rooms[room_id].phase = PHASE_AWAIT_WIRE
    /\ user_id = w.rooms[room_id].pending_wire_user_id
    /\ resolve_wire_arg(arg, w.rooms[room_id]) # ""

cut_wire(w, user_id, room_id, arg, rnd) ==
    apply_wire_cut_locked(w, room_id, user_id, resolve_wire_arg(arg, w.rooms[room_id]), rnd)

CmdCutWire(user_id, room_id, arg, rnds) ==
    IF cut_wire_allowed(World, user_id, room_id, arg)
    THEN \E rnd \in rnds : Commit(cut_wire(World, user_id, room_id, arg, rnd))
    ELSE Reject

\* _cmd_end_room
CmdEndRoom(user_id, room_id, is_admin) ==
    IF \/ room_id \notin DOMAIN rooms
       \/ (user_id # rooms[room_id].owner_id /\ ~is_admin)
    THEN Reject
    ELSE Commit(drop_room_locked(Emit(World, "room_ended", user_id), room_id))

RECURSIVE DropAll(_, _)
DropAll(w, S) ==
    IF S = {} THEN w
    ELSE LET rid == CHOOSE x \in S : TRUE IN DropAll(drop_room_locked(w, rid), S \ {rid})

\* _cleanup_rooms: stale is the set of waiting rooms idle for the configured time
CleanupRooms(stale) ==
    /\ stale # {}
    /\ \A rid \in stale : rid \in DOMAIN rooms /\ rooms[rid].phase = PHASE_WAITING
    /\ Commit(DropAll(Emit(World, "room_expired", NoUser), stale))

-----------------------------------------------------------------------------
(* Private commands *)

\* _cmd_private_play; indices is the argument list read as integers
private_play_allowed(w, user_id, indices) ==
    LET room_id == Get(w.player_room_index, user_id, "")
    IN /\ room_id # ""
       /\ room_id \in DOMAIN w.rooms
       /\ w.rooms[room_id].phase = PHASE_PLAYING
       /\ user_id \in DOMAIN w.rooms[room_id].players
       /\ w.rooms[room_id].players[user_id].alive
       /\ user_id = w.rooms[room_id].current_turn_user_id
       /\ indices # <<>>
       /\ normalize_indices(indices, Len(w.rooms[room_id].players[user_id].hand), -1) # <<>>

private_play(w, user_id, indices, rnd) ==
    LET room_id == w.player_room_index[user_id]
    IN apply_play_locked(w, room_id, user_id,
         normalize_indices(indices, Len(w.rooms[room_id].players[user_id].hand), -1), rnd)

CmdPrivatePlay(user_id, indices, rnds) ==
    IF private_play_allowed(World, user_id, indices)
    THEN \E rnd \in rnds : Commit(private_play(World, user_id, indices, rnd))
    ELSE Reject

-----------------------------------------------------------------------------
(* Deadline timers *)

MarkDone(tasks, room_id) ==
    IF room_id \in DOMAIN tasks THEN [tasks EXCEPT ![room_id].done = TRUE] ELSE tasks

\* runner() of _arm_play_timeout_task once its sleep has elapsed
PlayTimeoutFires(room_id, rnds) ==
    /\ room_id \in DOMAIN play_timeout_tasks
    /\ ~play_timeout_tasks[room_id].done
    /\ LET task == play_timeout_tasks[room_id]
       IN IF play_timeout_applies(World, room_id, task.token, task.target_uid)
          THEN \E rnd \in rnds :
                 Commit(handle_play_timeout(World, room_id, task.token, task.target_uid, rnd))
          ELSE /\ play_timeout_tasks' = MarkDone(play_timeout_tasks, room_id)
               /\ last_update' = <<>>
               /\ UNCHANGED <<rooms, player_room_index, wire_timeout_tasks,
                              ai_action_tasks, saved>>

\* runner() of _arm_wire_timeout_task once its sleep has elapsed
WireTimeoutFires(room_id, rnds) ==
    /\ room_id \in DOMAIN wire_timeout_tasks
    /\ ~wire_timeout_tasks[room_id].done
    /\ LET task == wire_timeout_tasks[room_id]
       IN IF wire_timeout_applies(World, room_id, task.token, task.target_uid)
          THEN \E rnd \in rnds :
                 LET w1 == handle_wire_timeout(World, room_id, task.token, task.target_uid, rnd)
                 IN Commit([w1 EXCEPT !.wire_timeout_tasks =
                              IF room_id \in DOMAIN @ /\ @[room_id] = task
                              THEN MarkDone(@, room_id) ELSE @])
          ELSE /\ wire_timeout_tasks' = MarkDone(wire_timeout_tasks, room_id)
               /\ last_update' = <<>>
               /\ UNCHANGED <<rooms, player_room_index, play_timeout_tasks,
                              ai_action_tasks, saved>>

-----------------------------------------------------------------------------
(* AI players *)

Decision(action, indices, color) == [action |-> action, indices |-> indices, color |-> color]
NoDecision == Decision("", <<>>, "")

\* random.sample(pool, k), narrowed to the first k and the last k elements of pool
Samples(pool, k) ==
    IF k <= 0 \/ pool = <<>> THEN {{}}
    ELSE {Range(SubSeq(pool, 1, Min(k, Len(pool)))),
          Range(SubSeq(pool, Len(pool) - Min(k, Len(pool)) + 1, Len(pool)))}

\* _fallback_ai_decision: the set of decisions its random draws can produce.  The
\* challenge probability always lies in [0.06, 0.82], so both outcomes of the draw
\* against it are possible whenever there is a last play.
fallback_ai_decision(room, ai_uid) ==
    LET default == IF room.last_play # None THEN Decision("challenge", <<>>, "")
                   ELSE Decision("play", <<1>>, "")
    IN IF ai_uid \notin DOMAIN room.players \/ room.players[ai_uid].hand = <<>>
       THEN {default}
       ELSE
         LET hand == room.players[ai_uid].hand
             hand_size == Len(hand)
             IsTruth(i) == hand[i] \in {room.target_card, CARD_MAGIC}
             IsFake(i) == ~IsTruth(i)
             all_indices == [i \in 1..hand_size |-> i]
             truth_indices == SelectSeq(all_indices, IsTruth)
             fake_indices == SelectSeq(all_indices, IsFake)
             max_play == Min(ai_max_play_cards, hand_size)
             PickTruth(play_count, shave) ==
                 LET base == Min(Len(truth_indices), play_count)
                 IN IF fake_indices # <<>> /\ play_count > 1 /\ room.last_play # None /\ shave
                    THEN Max(1, base - 1) ELSE base
             Plays(play_count, shave) ==
                 LET firsts == IF truth_indices # <<>>
                               THEN Samples(truth_indices, PickTruth(play_count, shave))
                               ELSE {{}}
                 IN UNION {LET NotChosen(i) == i \notin T
                               remaining_pool == SelectSeq(all_indices, NotChosen)
                               remaining_slots == play_count - Cardinality(T)
                           IN {T \cup F : F \in Samples(remaining_pool, remaining_slots)}
                           : T \in firsts}
             chosen == UNION {Plays(play_count, shave) :
                                play_count \in 1..max_play, shave \in BOOLEAN}
         IN (IF room.last_play # None THEN {Decision("challenge", <<>>, "")} ELSE {})
            \cup {Decision("play", SortAsc(c), "") : c \in chosen}

\* _parse_ai_llm_decision taking a challenge whether or not a claim is pending
parse_ai_llm_decision_anychallenge(data, room, ai_uid) ==
    LET hand_size == IF ai_uid \in DOMAIN room.players
                     THEN Len(room.players[ai_uid].hand) ELSE 0
    IN IF data.action = "challenge"
       THEN Some(Decision("challenge", <<>>, ""))
       ELSE IF data.action = "play"
       THEN LET normalized == normalize_indices(data.indices, hand_size,
                                                Min(ai_max_play_cards, Max(1, hand_size)))
            IN IF normalized = <<>> THEN None ELSE Some(Decision("play", normalized, ""))
       ELSE None

\* _parse_ai_llm_decision on the decoded JSON object data = [action, indices]
parse_ai_llm_decision(data, room, ai_uid) ==
    LET hand_size == IF ai_uid \in DOMAIN room.players
                     THEN Len(room.players[ai_uid].hand) ELSE 0
    IN IF data.action = "challenge"
       THEN (IF room.last_play # None THEN Some(Decision("challenge", <<>>, "")) ELSE None)
       ELSE IF data.action = "play"
       THEN LET normalized == normalize_indices(data.indices, hand_size,
                                                Min(ai_max_play_cards, Max(1, hand_size)))
            IN IF normalized = <<>> THEN None ELSE Some(Decision("play", normalized, ""))
       ELSE None

\* One attempt of the loop of _decide_ai_action: asyncio.wait_for timed out, the
\* provider raised, or it answered with a text that _extract_json_dict read as data
\* (a text that is not a JSON object is data with an action the parser does not know)
NoReply == [action |-> "", indices |-> <<>>]
Attempt(kind, data) == [kind |-> kind, data |-> data]
AttemptOutcomes(replies) ==
    {Attempt("timeout", NoReply), Attempt("error", NoReply)}
    \cup {Attempt("text", d) : d \in replies}

\* the providers self.context may hold for ai_provider_id: the id is empty, no
\* provider has the id, or the provider is found
PROVIDER_UNSET == ""
PROVIDER_MISSING == "missing"
PROVIDER_FOUND == "llm"
Providers == {PROVIDER_UNSET, PROVIDER_MISSING, PROVIDER_FOUND}

Decided(decision, calls, answered) ==
    [decision |-> decision, calls |-> calls, answered |-> answered]

\* the for loop of _decide_ai_action from its k-th pass on, for range(attempts)
RECURSIVE decide_attempts(_, _, _, _, _, _)
decide_attempts(room, ai_uid, outcomes, k, attempts, fallback) ==
    IF k > attempts THEN Decided(fallback, attempts, FALSE)
    ELSE LET parsed == IF outcomes[k].kind = "text"
                       THEN parse_ai_llm_decision(outcomes[k].data, room, ai_uid)
                       ELSE None
         IN IF parsed # None THEN Decided(parsed[1], k, TRUE)
            ELSE decide_attempts(room, ai_uid, outcomes, k + 1, attempts, fallback)

\* _decide_ai_action with one pass of the loop too few
decide_ai_action_run_noretry(room, ai_uid, provider, outcomes, fallback) ==
    IF provider = PROVIDER_UNSET THEN Decided(fallback, 0, FALSE)
    ELSE IF provider = PROVIDER_MISSING THEN Decided(fallback, 0, FALSE)
    ELSE decide_attempts(room, ai_uid, outcomes, 1, ai_llm_retry_times, fallback)

\* _decide_ai_action: fallback is the outcome of its call of _fallback_ai_decision,
\* outcomes[k] that of the k-th call of the provider, should it be made; the result
\* is the decision returned, with the number of calls made and whether the decision
\* is a provider's answer
decide_ai_action_run(room, ai_uid, provider, outcomes, fallback) ==
    IF provider = PROVIDER_UNSET THEN Decided(fallback, 0, FALSE)
    ELSE IF provider = PROVIDER_MISSING THEN Decided(fallback, 0, FALSE)
    ELSE decide_attempts(room, ai_uid, outcomes, 1, ai_llm_retry_times + 1, fallback)

\* the runs of _decide_ai_action there are for the providers and the replies given
decide_ai_results(room, ai_uid, providers, replies) ==
    {decide_ai_action_run(room, ai_uid, provider, outcomes, fallback) :
        provider \in providers,
        outcomes \in [1..(ai_llm_retry_times + 1) -> AttemptOutcomes(replies)],
        fallback \in fallback_ai_decision(room, ai_uid)}

\* _decide_ai_action: the decisions it can return, replies being the objects the
\* configured provider may answer with
decide_ai_action(room, ai_uid, replies) ==
    {res.decision : res \in decide_ai_results(room, ai_uid, Providers, replies)}

AiTask(token) ==
    [token |-> token, pc |-> "start", phase |-> "", ai_uid |-> NoUser, decision |-> NoDecision,
     calls |-> 0, answered |-> FALSE]

\* should_run of _kick_ai_if_needed
should_run(room) ==
    LET actor_id == IF room.phase = PHASE_PLAYING THEN room.current_turn_user_id
                    ELSE room.pending_wire_user_id
    IN /\ room.phase \in {PHASE_PLAYING, PHASE_AWAIT_WIRE}
       /\ actor_id \in DOMAIN room.players
       /\ room.players[actor_id].is_ai
       /\ room.players[actor_id].alive

\* _kick_ai_if_needed, the call that ends _dispatch_round_update
KickAi(room_id) ==
    /\ ai_action_tasks' =
         IF ~ai_enabled \/ room_id \notin DOMAIN rooms \/ ~should_run(rooms[room_id])
         THEN Pop(ai_action_tasks, room_id)
         ELSE IF /\ room_id \in DOMAIN ai_action_tasks
                 /\ ai_action_tasks[room_id].token = rooms[room_id].action_token
         THEN ai_action_tasks
         ELSE Put(Pop(ai_action_tasks, room_id), room_id, AiTask(rooms[room_id].action_token))
    /\ UNCHANGED <<rooms, player_room_index, play_timeout_tasks, wire_timeout_tasks,
                   saved, last_update>>

\* The first locked block of _run_ai_action does not return early
ai_snapshot_taken(w, room_id, token) ==
    /\ room_id \in DOMAIN w.rooms
    /\ w.rooms[room_id].action_token = token
    /\ should_run(w.rooms[room_id])

\* _run_ai_action up to its decision: the first locked block and the call of
\* _decide_ai_action or random.choice(options) on the snapshot
AiDecides(room_id, replies) ==
    /\ room_id \in DOMAIN ai_action_tasks
    /\ ai_action_tasks[room_id].pc = "start"
    /\ UNCHANGED <<rooms, player_room_index, play_timeout_tasks, wire_timeout_tasks, saved>>
    /\ last_update' = <<>>
    /\ IF ~ai_snapshot_taken(World, room_id, ai_action_tasks[room_id].token)
       THEN ai_action_tasks' = Pop(ai_action_tasks, room_id)
       ELSE
         LET snapshot == rooms[room_id]
             phase == snapshot.phase
             ai_uid == IF phase = PHASE_PLAYING THEN snapshot.current_turn_user_id
                       ELSE snapshot.pending_wire_user_id
             results == IF phase = PHASE_PLAYING
                        THEN decide_ai_results(snapshot, ai_uid, Providers, replies)
                        ELSE IF snapshot.wire_options # <<>>
                        THEN {Decided(Decision("wire", <<>>, c), 0, FALSE) :
                                c \in Range(snapshot.wire_options)}
                        ELSE {Decided(Decision("wire", <<>>, ""), 0, FALSE)}
         IN \E res \in results :
              ai_action_tasks' = [ai_action_tasks EXCEPT ![room_id] =
                                    [@ EXCEPT !.pc = "decided", !.phase = phase,
                                              !.ai_uid = ai_uid, !.decision = res.decision,
                                              !.calls = res.calls,
                                              !.answered = res.answered]]

\* ai_apply_allowed with only the lookups left: no check of token, phase, due
\* player or alive
ai_apply_allowed_mut(w, room_id, task) ==
    /\ room_id \in DOMAIN w.rooms
    /\ task.ai_uid \in DOMAIN w.rooms[room_id].players

\* ai_apply_allowed with the phase check only
ai_apply_allowed_phase_only(w, room_id, task) ==
    /\ room_id \in DOMAIN w.rooms
    /\ w.rooms[room_id].phase = task.phase
    /\ task.ai_uid \in DOMAIN w.rooms[room_id].players

\* The checks that open the second locked block of _run_ai_action
ai_apply_allowed(w, room_id, task) ==
    /\ room_id \in DOMAIN w.rooms
    /\ w.rooms[room_id].action_token = task.token
    /\ w.rooms[room_id].phase = task.phase
    /\ task.ai_uid = (IF task.phase = PHASE_PLAYING
                      THEN w.rooms[room_id].current_turn_user_id
                      ELSE w.rooms[room_id].pending_wire_user_id)
    /\ task.ai_uid \in DOMAIN w.rooms[room_id].players
    /\ w.rooms[room_id].players[task.ai_uid].is_ai
    /\ w.rooms[room_id].players[task.ai_uid].alive

\* The indices the play branch of _run_ai_action ends with: the decision's, or the
\* heuristic decision's when the decision's do not normalise
ai_play_norm(player, decision, fallback) ==
    LET max_cards == Min(ai_max_play_cards, Len(player.hand))
        norm0 == normalize_indices(decision.indices, Len(player.hand), max_cards)
    IN IF norm0 # <<>> THEN norm0
       ELSE normalize_indices(fallback.indices, Len(player.hand), max_cards)

\* The rest of the second locked block; fallback is the outcome of the call of
\* _fallback_ai_decision made when the decision's indices do not normalise
ai_apply(w, room_id, task, fallback, rnd) ==
    LET room == w.rooms[room_id]
        ai_uid == task.ai_uid
        player == room.players[ai_uid]
        decision == task.decision
        challenge == resolve_challenge_locked(Emit(w, "ai_challenge", ai_uid),
                                              room_id, ai_uid, rnd)
    IN IF task.phase = PHASE_PLAYING
       THEN IF decision.action = "challenge" /\ room.last_play # None THEN challenge
            ELSE
              LET norm == ai_play_norm(player, decision, fallback)
              IN IF norm = <<>>
                 THEN (IF room.last_play # None THEN challenge
                       ELSE start_new_round_locked(w, room_id, rnd))
                 ELSE apply_play_locked(w, room_id, ai_uid, norm, rnd)
       ELSE
         LET options == room.wire_options
             drawn == IF options = <<>> THEN ""
                      ELSE options[((rnd.pick - 1) % Len(options)) + 1]
             picked0 == decision.color
             picked1 == IF ~Contains(options, picked0) /\ options # <<>> THEN drawn ELSE picked0
             picked == IF picked1 = "" /\ options # <<>> THEN drawn ELSE picked1
         IN IF picked = "" THEN start_new_round_locked(w, room_id, rnd)
            ELSE apply_wire_cut_locked(w, room_id, ai_uid, picked, rnd)

\* the done-callback of the task: its entry is dropped unless it has been replaced
TaskEnds(w, room_id, task) ==
    IF room_id \in DOMAIN w.ai_action_tasks /\ w.ai_action_tasks[room_id] = task
    THEN cancel_ai_action_task_locked(w, room_id) ELSE w

\* _run_ai_action from its second locked block to its end
AiApplies(room_id, rnds) ==
    /\ room_id \in DOMAIN ai_action_tasks
    /\ ai_action_tasks[room_id].pc = "decided"
    /\ LET task == ai_action_tasks[room_id]
       IN IF ai_apply_allowed(World, room_id, task)
          THEN \E fallback \in fallback_ai_decision(rooms[room_id], task.ai_uid), rnd \in rnds :
                 Commit(TaskEnds(ai_apply(World, room_id, task, fallback, rnd), room_id, task))
          ELSE /\ ai_action_tasks' = Pop(ai_action_tasks, room_id)
               /\ last_update' = <<>>
               /\ UNCHANGED <<rooms, player_room_index, play_timeout_tasks,
                              wire_timeout_tasks, saved>>

-----------------------------------------------------------------------------
(* The step just taken.  obs names the handler that ran last, the room it ran     *)
(* for and that room's token when it began, what the handler had captured when    *)
(* it was created (for a timer or an AI task the token, the due player and the    *)
(* phase it was armed for; for a command its sender) and, for the handlers of a   *)
(* game (start, play, challenge, cut, the timers and the AI task), the engine's   *)
(* state when it began.  A rejected command changes nothing, obs included.        *)

\* action_token starts at 0 and only grows; NoToken stands for the token of a room
\* that self.rooms does not hold
NoToken == -1
NoBefore == <<>>

Before ==
    [rooms |-> rooms, player_room_index |-> player_room_index,
     play_timeout_tasks |-> play_timeout_tasks, wire_timeout_tasks |-> wire_timeout_tasks,
     saved |-> saved]

TokenOf(room_id) ==
    IF room_id \in DOMAIN rooms THEN rooms[room_id].action_token ELSE NoToken

Obs(kind, room_id, uid, captured, phase, token_before, before) ==
    [kind |-> kind, room |-> room_id, uid |-> uid, captured |-> captured, phase |-> phase,
     token_before |-> token_before, before |-> before]

Step(A, kind, room_id, uid, captured, phase, before) ==
    /\ A
    /\ UNCHANGED <<disk, start_calls>>
    /\ obs' = IF UNCHANGED <<rooms, player_room_index, play_timeout_tasks, wire_timeout_tasks,
                             ai_action_tasks, saved, last_update>>
              THEN obs
              ELSE Obs(kind, room_id, uid, captured, phase, TokenOf(room_id), before)

LobbyCommand(A, kind, room_id, uid) ==
    Step(A, kind, room_id, uid, TokenOf(room_id), "", NoBefore)

GameCommand(A, kind, room_id, uid) ==
    Step(A, kind, room_id, uid, TokenOf(room_id), "", Before)

Job(A, kind, room_id, uid, captured, phase) ==
    Step(A, kind, room_id, uid, captured, phase, Before)

\* No further step of a game is taken in a room whose token has reached cap
Within(room_id, cap) == TokenOf(room_id) < cap

-----------------------------------------------------------------------------
(* The handlers as actions, their inputs drawn from the sets passed in *)

CountArgs == {0, 1, 2}
PlayArgs == {<<3>>, <<2, 1>>, <<1, 2, 3, 4, 5>>, <<1, 1>>, <<6>>, <<0>>, <<>>}
WireArgs == {"1", "red", "blue", "yellow", "green"}
LlmReplies ==
    {[action |-> "challenge", indices |-> <<>>], [action |-> "play", indices |-> <<2, 1>>],
     [action |-> "play", indices |-> <<1, 2, 3, 4>>], [action |-> "pass", indices |-> <<>>],
     [action |-> "play", indices |-> <<1, 1>>], [action |-> "play", indices |-> <<6>>],
     [action |-> "play", indices |-> <<0, 1>>]}
PickDraws == {1, 2}
TargetDraws == {CARD_SUN}
Rnd == [shuffle : Shuffles, target : TargetDraws, pick : {1}]
RndPick == [shuffle : Shuffles, target : TargetDraws, pick : PickDraws]
BombDraws(room_id) ==
    IF room_id \in DOMAIN rooms
    THEN {[uid \in Range(rooms[room_id].order) |-> c] : c \in {WIRE_RED, WIRE_BLUE}}
    ELSE {}
CursorDraws(room_id) == {0}

CreateRoomBy(users, rms) ==
    \E u \in users, r \in rms : LobbyCommand(CmdCreateRoom(u, r), "create", r, u)

JoinRoomBy(users, rms) ==
    \E u \in users, r \in rms : LobbyCommand(CmdJoinRoom(u, r), "join", r, u)

AddAiBy(users, rms, max_seq) ==
    \E u \in users, r \in rms, count \in CountArgs, bomb \in {WIRE_RED} :
       /\ r \in DOMAIN rooms => rooms[r].ai_seq + count <= max_seq
       /\ LobbyCommand(CmdAddAi(u, r, count, bomb), "add_ai", r, u)

RemoveAiBy(users, rms) ==
    \E u \in users, r \in rms, count \in CountArgs :
       LobbyCommand(CmdRemoveAi(u, r, count), "remove_ai", r, u)

StartRoomWith(users, rms, probes, rnds) ==
    \E u \in users, r \in rms, reachable \in probes :
       GameCommand(CmdStartRoom(u, r, reachable, CursorDraws(r), BombDraws(r), rnds),
                   "start", r, u)

StartRoomBy(users, rms, probes) == StartRoomWith(users, rms, probes, Rnd)

ChallengeBy(users, rms, cap) ==
    \E u \in users, r \in rms :
       Within(r, cap) /\ GameCommand(CmdChallenge(u, r, Rnd), "challenge", r, u)

CutWireBy(users, rms, cap) ==
    \E u \in users, r \in rms, arg \in WireArgs :
       Within(r, cap) /\ GameCommand(CmdCutWire(u, r, arg, Rnd), "cut", r, u)

EndRoomBy(users, rms, admins) ==
    \E u \in users, r \in rms :
       LobbyCommand(CmdEndRoom(u, r, u \in admins), "end", r, u)

CleanupOf(rms) ==
    \E stale \in SUBSET rms : LobbyCommand(CleanupRooms(stale), "cleanup", "", NoUser)

PrivatePlayBy(users, cap) ==
    \E u \in users, indices \in PlayArgs :
       LET r == Get(player_room_index, u, "")
       IN Within(r, cap) /\ GameCommand(CmdPrivatePlay(u, indices, Rnd), "play", r, u)

PlayTimeoutWithin(cap) ==
    \E r \in DOMAIN play_timeout_tasks :
       /\ Within(r, cap)
       /\ Job(PlayTimeoutFires(r, Rnd), "play_timer", r, play_timeout_tasks[r].target_uid,
              play_timeout_tasks[r].token, PHASE_PLAYING)

WireTimeoutWithin(cap) ==
    \E r \in DOMAIN wire_timeout_tasks :
       /\ Within(r, cap)
       /\ Job(WireTimeoutFires(r, RndPick), "wire_timer", r, wire_timeout_tasks[r].target_uid,
              wire_timeout_tasks[r].token, PHASE_AWAIT_WIRE)

KickOf(rms) ==
    \E r \in rms : Step(KickAi(r), "kick", r, NoUser, TokenOf(r), "", NoBefore)

AiDecide ==
    \E r \in DOMAIN ai_action_tasks :
       Job(AiDecides(r, LlmReplies), "ai_decide", r, NoUser, ai_action_tasks[r].token, "")

AiApplyWithin(cap) ==
    \E r \in DOMAIN ai_action_tasks :
       /\ Within(r, cap)
       /\ Job(AiApplies(r, RndPick), "ai_apply", r, ai_action_tasks[r].ai_uid,
              ai_action_tasks[r].token, ai_action_tasks[r].phase)

-----------------------------------------------------------------------------
(* Spec: one group, two humans and the AI seat its owner adds, from an empty      *)
(* engine                                                                         *)

Users == {"u1", "u2"}
Rooms == {"g1"}
ProbeOutcomes == {Users, {"u1"}}

Init ==
    /\ rooms = EmptyDict
    /\ player_room_index = EmptyDict
    /\ play_timeout_tasks = EmptyDict
    /\ wire_timeout_tasks = EmptyDict
    /\ ai_action_tasks = EmptyDict
    /\ saved = [rooms |-> EmptyDict, player_room_index |-> EmptyDict]
    /\ last_update = <<>>
    /\ disk = DiskFresh
    /\ start_calls = EmptyDict
    /\ obs = Obs("init", "", NoUser, NoToken, "", NoToken, NoBefore)

CreateRoom == CreateRoomBy(Users, Rooms)
JoinRoom == JoinRoomBy(Users, Rooms)
AddAi == AddAiBy(Users, Rooms, MaxAiSeq)
RemoveAi == RemoveAiBy(Users, Rooms)
StartRoom == StartRoomBy(Users, Rooms, ProbeOutcomes)
Challenge == ChallengeBy(Users, Rooms, MaxToken)
CutWire == CutWireBy(Users, Rooms, MaxToken)
EndRoom == EndRoomBy(Users, Rooms, {"u2"})
Cleanup == CleanupOf(Rooms)
PrivatePlay == PrivatePlayBy(Users, MaxToken)
PlayTimeout == PlayTimeoutWithin(MaxToken)
WireTimeout == WireTimeoutWithin(MaxToken)
Kick == KickOf(Rooms)
AiApply == AiApplyWithin(MaxToken)

Next ==
    \/ CreateRoom \/ JoinRoom \/ AddAi \/ RemoveAi \/ StartRoom
    \/ Challenge \/ CutWire \/ EndRoom \/ Cleanup \/ PrivatePlay
    \/ PlayTimeout \/ WireTimeout \/ Kick \/ AiDecide \/ AiApply

Spec == Init /\ [][Next]_vars

-----------------------------------------------------------------------------
(* SpecShowdown: the game of Spec among two humans and one AI seat, where the      *)
(* shuffle at the start may also leave the deck in face order, so that the first   *)
(* seat holds five cards of one face, and the first target is any face.            *)

ShowdownRnd == [shuffle : {1, Len(ShuffleStrides)}, target : Range(TARGET_CARDS), pick : {1}]

ShowdownStartRoom == StartRoomWith(Users, Rooms, {Users}, ShowdownRnd)
ShowdownChallenge == ChallengeBy(Users, Rooms, MaxShowdownToken)
ShowdownCutWire == CutWireBy(Users, Rooms, MaxShowdownToken)
ShowdownPrivatePlay == PrivatePlayBy(Users, MaxShowdownToken)
ShowdownPlayTimeout == PlayTimeoutWithin(MaxShowdownToken)

NextShowdown ==
    \/ CreateRoom \/ JoinRoom \/ AddAi \/ ShowdownStartRoom
    \/ ShowdownChallenge \/ ShowdownCutWire \/ ShowdownPrivatePlay \/ ShowdownPlayTimeout

SpecShowdown == Init /\ [][NextShowdown]_vars

-----------------------------------------------------------------------------
(* SpecReload: the opening of a game of Spec, with the plugin stopped and           *)
(* constructed again from the state file at any moment.  The file is the last      *)
(* snapshot saved, as it is or with the turn holder of a room in the playing phase *)
(* replaced by an id of no player.                                                 *)

Ghost == "ghost"

\* the state file with the turn holder of room_id dangling
Dangling(raw, room_id) == [raw EXCEPT !.rooms[room_id].current_turn_user_id = Ghost]

\* _resume_timers arming no play timer
resume_play_timers_none(loaded_rooms) == EmptyDict

\* _resume_timers
resume_play_timers(loaded_rooms) ==
    LET Due(rid) == /\ loaded_rooms[rid].phase = PHASE_PLAYING
                    /\ loaded_rooms[rid].current_turn_user_id # NoUser
                    /\ loaded_rooms[rid].play_deadline_ts > 0
    IN [rid \in {r \in DOMAIN loaded_rooms : Due(r)} |->
          TimerTask(loaded_rooms[rid].action_token, loaded_rooms[rid].current_turn_user_id)]

resume_wire_timers(loaded_rooms) ==
    LET Due(rid) == /\ loaded_rooms[rid].phase = PHASE_AWAIT_WIRE
                    /\ loaded_rooms[rid].pending_wire_user_id # NoUser
                    /\ loaded_rooms[rid].wire_deadline_ts > 0
    IN [rid \in {r \in DOMAIN loaded_rooms : Due(r)} |->
          TimerTask(loaded_rooms[rid].action_token, loaded_rooms[rid].pending_wire_user_id)]

\* __init__ with _load_state, then initialize with _resume_timers, on the state file raw;
\* the tasks of the process that was stopped are gone
Restart(raw) ==
    LET loaded == load_state(raw)
    IN /\ rooms' = loaded.rooms
       /\ player_room_index' = loaded.player_room_index
       /\ play_timeout_tasks' = resume_play_timers(loaded.rooms)
       /\ wire_timeout_tasks' = resume_wire_timers(loaded.rooms)
       /\ ai_action_tasks' = EmptyDict
       /\ saved' = raw
       /\ last_update' = <<>>

Reload ==
    \/ Step(Restart(Payload(saved)), "reload", "", NoUser, NoToken, "", NoBefore)
    \/ \E r \in DOMAIN saved.rooms :
          /\ saved.rooms[r].phase = PHASE_PLAYING
          /\ Step(Restart(Dangling(Payload(saved), r)), "reload_dangling", r, NoUser,
                  TokenOf(r), "", Before)

ReloadChallenge == ChallengeBy(Users, Rooms, MaxReloadToken)
ReloadPrivatePlay == PrivatePlayBy(Users, MaxReloadToken)
ReloadPlayTimeout == PlayTimeoutWithin(MaxReloadToken)

NextReload ==
    \/ CreateRoom \/ JoinRoom \/ AddAi \/ StartRoom
    \/ ReloadChallenge \/ ReloadPrivatePlay \/ ReloadPlayTimeout \/ Reload

SpecReload == Init /\ [][NextReload]_vars

-----------------------------------------------------------------------------
(* SpecWire: three humans in a game that has reached its second round, where u1   *)
(* has survived one wire cut and is sent to cut again.  The state is the one the  *)
(* commands of InitWire leave behind, each accepted by its handler.               *)

WireUsers == {"u1", "u2", "u3"}
WireRoom == "g1"
Rnd0 == [shuffle |-> 1, target |-> CARD_SUN, pick |-> 1]

EmptyWorld ==
    [rooms |-> EmptyDict, player_room_index |-> EmptyDict,
     play_timeout_tasks |-> EmptyDict, wire_timeout_tasks |-> EmptyDict,
     ai_action_tasks |-> EmptyDict, outbox |-> <<>>]

WireBombs ==
    {[u1 |-> c, u2 |-> WIRE_RED, u3 |-> WIRE_BLUE] : c \in {WIRE_BLUE, WIRE_YELLOW}}

\* The state handed on from one command of the replay to the next
Then(w) == {[w EXCEPT !.outbox = <<>>]}

\* u1 opens the room, u2 and u3 join, u1 starts; u1 bluffs, is challenged by u2 and
\* cuts the red wire; in round 2 u2 and u3 play the target card and u1 challenges.
InitWire ==
    \E bombs \in WireBombs :
    \E w1 \in Then(create_room(EmptyWorld, "u1", WireRoom)) :
    \E w2 \in Then(join_room(w1, "u2", WireRoom)) :
    \E w3 \in Then(join_room(w2, "u3", WireRoom)) :
    \E w4 \in Then(start_room(w3, WireRoom, WireUsers, 0, bombs, Rnd0)) :
    \E w5 \in Then(private_play(w4, "u1", <<1, 2>>, Rnd0)) :
    \E w6 \in Then(resolve_challenge_locked(w5, WireRoom, "u2", Rnd0)) :
    \E w7 \in Then(cut_wire(w6, "u1", WireRoom, WIRE_RED, Rnd0)) :
    \E w8 \in Then(private_play(w7, "u2", <<3>>, Rnd0)) :
    \E w9 \in Then(private_play(w8, "u3", <<2>>, Rnd0)) :
    \E w \in {resolve_challenge_locked(w9, WireRoom, "u1", Rnd0)} :
       /\ create_room_allowed(EmptyWorld, "u1", WireRoom)
       /\ join_room_allowed(w1, "u2", WireRoom)
       /\ join_room_allowed(w2, "u3", WireRoom)
       /\ start_allowed(w3, "u1", WireRoom)
       /\ private_play_allowed(w4, "u1", <<1, 2>>)
       /\ challenge_allowed(w5, "u2", WireRoom)
       /\ cut_wire_allowed(w6, "u1", WireRoom, WIRE_RED)
       /\ private_play_allowed(w7, "u2", <<3>>)
       /\ private_play_allowed(w8, "u3", <<2>>)
       /\ challenge_allowed(w9, "u1", WireRoom)
       /\ rooms = w.rooms
       /\ player_room_index = w.player_room_index
       /\ play_timeout_tasks = w.play_timeout_tasks
       /\ wire_timeout_tasks = w.wire_timeout_tasks
       /\ ai_action_tasks = w.ai_action_tasks
       /\ saved = Snapshot(w)
       /\ last_update = w.outbox
       /\ disk = DiskFresh
       /\ start_calls = EmptyDict
       /\ obs = Obs("challenge", WireRoom, "u1", NoToken, "", NoToken, NoBefore)

WireChallenge == ChallengeBy(WireUsers, {WireRoom}, MaxWireToken)
WireCutWire == CutWireBy(WireUsers, {WireRoom}, MaxWireToken)
WirePrivatePlay == PrivatePlayBy(WireUsers, MaxWireToken)
WirePlayTimeout == PlayTimeoutWithin(MaxWireToken)
WireWireTimeout == WireTimeoutWithin(MaxWireToken)

NextWire ==
    \/ WireChallenge \/ WireCutWire \/ WirePrivatePlay \/ WirePlayTimeout \/ WireWireTimeout

SpecWire == InitWire /\ [][NextWire]_vars

-----------------------------------------------------------------------------
(* SpecTurn: the commands of four users against the game of SpecWire and against   *)
(* a waiting room of four members, on which every command but a join is refused.   *)

TurnUsers == {"u1", "u2", "u3", "u4"}

\* u1 opens the room and adds two AI seats, u2 joins
InitFull ==
    \E w1 \in Then(create_room(EmptyWorld, "u1", WireRoom)) :
    \E w2 \in Then(add_ai(w1, WireRoom, 2, WIRE_RED)) :
    \E w \in {join_room(w2, "u2", WireRoom)} :
       /\ create_room_allowed(EmptyWorld, "u1", WireRoom)
       /\ add_ai_allowed(w1, "u1", WireRoom, 2)
       /\ join_room_allowed(w2, "u2", WireRoom)
       /\ rooms = w.rooms
       /\ player_room_index = w.player_room_index
       /\ play_timeout_tasks = w.play_timeout_tasks
       /\ wire_timeout_tasks = w.wire_timeout_tasks
       /\ ai_action_tasks = w.ai_action_tasks
       /\ saved = Snapshot(w)
       /\ last_update = w.outbox
       /\ disk = DiskFresh
       /\ start_calls = EmptyDict
       /\ obs = Obs("join", WireRoom, "u2", NoToken, "", NoToken, NoBefore)

InitTurn == InitWire \/ InitFull

TurnJoinRoom == JoinRoomBy(TurnUsers, {WireRoom})
TurnChallenge == ChallengeBy(TurnUsers, {WireRoom}, MaxWireToken)
TurnCutWire == CutWireBy(TurnUsers, {WireRoom}, MaxWireToken)
TurnPrivatePlay == PrivatePlayBy(TurnUsers, MaxWireToken)
TurnPlayTimeout == PlayTimeoutWithin(MaxWireToken)
TurnWireTimeout == WireTimeoutWithin(MaxWireToken)

NextTurn ==
    \/ TurnJoinRoom \/ TurnChallenge \/ TurnCutWire \/ TurnPrivatePlay
    \/ TurnPlayTimeout \/ TurnWireTimeout

SpecTurn == InitTurn /\ [][NextTurn]_vars

-----------------------------------------------------------------------------
(* SpecLobby: two groups, three humans and up to MaxLobbyAiSeq AI seats a room;   *)
(* a started game moves by its play deadlines only.                               *)

LobbyUsers == {"u1", "u2", "u3"}
LobbyRooms == {"g1", "g2"}

LobbyCreateRoom == CreateRoomBy(LobbyUsers, LobbyRooms)
LobbyJoinRoom == JoinRoomBy(LobbyUsers, LobbyRooms)
LobbyAddAi == AddAiBy(LobbyUsers, LobbyRooms, MaxLobbyAiSeq)
LobbyRemoveAi == RemoveAiBy(LobbyUsers, LobbyRooms)
\* the first round's target is any of TARGET_CARDS
LobbyRnd == [shuffle : {1}, target : Range(TARGET_CARDS), pick : {1}]
LobbyStartRoom == StartRoomWith(LobbyUsers, LobbyRooms, {LobbyUsers}, LobbyRnd)
LobbyEndRoom == EndRoomBy(LobbyUsers, LobbyRooms, {"u3"})
LobbyCleanup == CleanupOf(LobbyRooms)
LobbyPlayTimeout == PlayTimeoutWithin(MaxLobbyToken)

NextLobby ==
    \/ LobbyCreateRoom \/ LobbyJoinRoom \/ LobbyAddAi \/ LobbyRemoveAi \/ LobbyStartRoom
    \/ LobbyEndRoom \/ LobbyCleanup \/ LobbyPlayTimeout

SpecLobby == Init /\ [][NextLobby]_vars

-----------------------------------------------------------------------------
(* SpecClose: the game of Spec in group g1 while u3 keeps a waiting room open in  *)
(* group g2, which u3 may end and the idle sweep may close.                       *)

CloseOwner == "u3"
CloseRoom == "g2"

\* u3 opens the room of g2
InitClose ==
    \E w \in {create_room(EmptyWorld, CloseOwner, CloseRoom)} :
       /\ create_room_allowed(EmptyWorld, CloseOwner, CloseRoom)
       /\ rooms = w.rooms
       /\ player_room_index = w.player_room_index
       /\ play_timeout_tasks = w.play_timeout_tasks
       /\ wire_timeout_tasks = w.wire_timeout_tasks
       /\ ai_action_tasks = w.ai_action_tasks
       /\ saved = Snapshot(w)
       /\ last_update = w.outbox
       /\ disk = DiskFresh
       /\ start_calls = EmptyDict
       /\ obs = Obs("create", CloseRoom, CloseOwner, NoToken, "", NoToken, NoBefore)

CloseEndRoom == EndRoomBy({CloseOwner}, {CloseRoom}, {})
CloseCleanup == CleanupOf(Rooms \cup {CloseRoom})

NextClose == Next \/ CloseEndRoom \/ CloseCleanup

SpecClose == InitClose /\ [][NextClose]_vars

-----------------------------------------------------------------------------
(* SpecSeats: the lobby of two groups and two humans, with up to MaxSeatsAiSeq AI *)
(* seats allotted in a room, so that a room fills while a human is still outside. *)

SeatsUsers == {"u1", "u2"}
SeatsRnd == [shuffle : {1}, target : {CARD_SUN}, pick : {1}]

SeatsCreateRoom == CreateRoomBy(SeatsUsers, LobbyRooms)
SeatsJoinRoom == JoinRoomBy(SeatsUsers, LobbyRooms)
SeatsAddAi == AddAiBy(SeatsUsers, LobbyRooms, MaxSeatsAiSeq)
SeatsRemoveAi == RemoveAiBy(SeatsUsers, LobbyRooms)
SeatsStartRoom == StartRoomWith(SeatsUsers, LobbyRooms, {SeatsUsers}, SeatsRnd)

NextSeats ==
    \/ SeatsCreateRoom \/ SeatsJoinRoom \/ SeatsAddAi \/ SeatsRemoveAi \/ SeatsStartRoom

SpecSeats == Init /\ [][NextSeats]_vars

-----------------------------------------------------------------------------
(* SpecRestart: the game of SpecWire, with the plugin stopped and constructed     *)
(* again at any moment from the snapshot it last saved.  A timer task that is    *)
(* armed sleeps until its deadline and then runs, unless it is cancelled first:  *)
(* no timer stays due for ever.                                                  *)

RestartSaved == Step(Restart(Payload(saved)), "reload", "", NoUser, NoToken, "", NoBefore)

NextRestart == NextWire \/ RestartSaved

\* a timer task is armed and has not run: WirePlayTimeout or WireWireTimeout is enabled
TimerDue ==
    \/ \E r \in DOMAIN play_timeout_tasks :
          Within(r, MaxWireToken) /\ ~play_timeout_tasks[r].done
    \/ \E r \in DOMAIN wire_timeout_tasks :
          Within(r, MaxWireToken) /\ ~wire_timeout_tasks[r].done

SpecRestart == InitWire /\ [][NextRestart]_vars /\ []<>~TimerDue

-----------------------------------------------------------------------------
(* SpecMatch: the game of SpecWire in which no timer stays due for ever.          *)

SpecMatch == InitWire /\ [][NextWire]_vars /\ []<>~TimerDue

-----------------------------------------------------------------------------
(* SpecReopen: the game of Spec in a group whose room u1 has opened, where every   *)
(* later room of the group is opened by u2: a room owned by u2 is a room opened    *)
(* after an earlier room of the same id was closed.                                 *)

ReopenFirst == "u1"
ReopenLater == "u2"
ReopenRoom == "g1"

InitReopen ==
    \E w \in {create_room(EmptyWorld, ReopenFirst, ReopenRoom)} :
       /\ create_room_allowed(EmptyWorld, ReopenFirst, ReopenRoom)
       /\ rooms = w.rooms
       /\ player_room_index = w.player_room_index
       /\ play_timeout_tasks = w.play_timeout_tasks
       /\ wire_timeout_tasks = w.wire_timeout_tasks
       /\ ai_action_tasks = w.ai_action_tasks
       /\ saved = Snapshot(w)
       /\ last_update = w.outbox
       /\ disk = DiskFresh
       /\ start_calls = EmptyDict
       /\ obs = Obs("create", ReopenRoom, ReopenFirst, NoToken, "", NoToken, NoBefore)

ReopenCreateRoom == CreateRoomBy({ReopenLater}, {ReopenRoom})

NextReopen ==
    \/ ReopenCreateRoom \/ JoinRoom \/ AddAi \/ RemoveAi \/ StartRoom
    \/ Challenge \/ CutWire \/ EndRoom \/ Cleanup \/ PrivatePlay
    \/ PlayTimeout \/ WireTimeout \/ Kick \/ AiDecide \/ AiApply

SpecReopen == InitReopen /\ [][NextReopen]_vars

-----------------------------------------------------------------------------
(* SpecStart: the lobby of one group, where a call of _cmd_start_room leaves the   *)
(* lock after its checks, probes the humans it saw, and takes the lock again to     *)
(* apply; any command of the lobby, and another call, may run in between.          *)

StartUsers == {"u1", "u2"}
StartRooms == {"g1"}
StartCallIds == 1..MaxStartCalls

StartCreateRoom == CreateRoomBy(StartUsers, StartRooms)
StartJoinRoom == JoinRoomBy(StartUsers, StartRooms)
StartAddAi == AddAiBy(StartUsers, StartRooms, MaxStartAiSeq)
StartRemoveAi == RemoveAiBy(StartUsers, StartRooms)
StartEndRoom == EndRoomBy(StartUsers, StartRooms, {})

\* the first locked block passes its checks and the call goes on to probe
StartChecked ==
    \E c \in StartCallIds, u \in StartUsers, r \in StartRooms :
       /\ c \notin DOMAIN start_calls
       /\ \A b \in StartCallIds : b < c => b \in DOMAIN start_calls
       /\ start_allowed(World, u, r)
       /\ start_calls' = Put(start_calls, c,
                             StartCall(u, r, start_probe_targets(rooms[r]), Len(rooms[r].order)))
       /\ UNCHANGED <<rooms, player_room_index, play_timeout_tasks, wire_timeout_tasks,
                      ai_action_tasks, saved, last_update, disk, obs>>

\* the probes have answered (reachable are the targets that answered) and the
\* second locked block runs
StartApplied ==
    \E c \in DOMAIN start_calls :
       LET call == start_calls[c]
       IN /\ start_calls' = Pop(start_calls, c)
          /\ UNCHANGED disk
          /\ IF start_apply_allowed(World, call.user_id, call.room_id)
             THEN \E reachable \in SUBSET Range(call.probe_targets),
                     cursor \in CursorDraws(call.room_id),
                     bombs \in BombDraws(call.room_id), rnd \in SeatsRnd :
                     Commit(start_room(World, call.room_id, reachable, cursor, bombs, rnd))
             ELSE Reject
          /\ obs' = Obs("start", call.room_id, call.user_id, TokenOf(call.room_id), "",
                        TokenOf(call.room_id), ("call" :> call) @@ Before)

NextStart ==
    \/ StartCreateRoom \/ StartJoinRoom \/ StartAddAi \/ StartRemoveAi \/ StartEndRoom
    \/ StartChecked \/ StartApplied

SpecStart == Init /\ [][NextStart]_vars

-----------------------------------------------------------------------------
(* SpecPair: two matches side by side.  In g1 the AI seat sits between u1 and u2   *)
(* and opens the round; in g2 it sits behind u3 and u4, and u3 opens.              *)

PairUsers == {"u1", "u2", "u3", "u4"}
PairRooms == {"g1", "g2"}
PairBombs(w, room_id) == [uid \in Range(w.rooms[room_id].order) |-> WIRE_RED]

InitPair ==
    \E w1 \in Then(create_room(EmptyWorld, "u1", "g1")) :
    \E w2 \in Then(add_ai(w1, "g1", 1, WIRE_RED)) :
    \E w3 \in Then(join_room(w2, "u2", "g1")) :
    \E w4 \in Then(create_room(w3, "u3", "g2")) :
    \E w5 \in Then(join_room(w4, "u4", "g2")) :
    \E w6 \in Then(add_ai(w5, "g2", 1, WIRE_RED)) :
    \E w7 \in Then(start_room(w6, "g1", {"u1", "u2"}, 1, PairBombs(w6, "g1"), Rnd0)) :
    \E w \in {start_room(w7, "g2", {"u3", "u4"}, 0, PairBombs(w7, "g2"), Rnd0)} :
       /\ create_room_allowed(EmptyWorld, "u1", "g1")
       /\ add_ai_allowed(w1, "u1", "g1", 1)
       /\ join_room_allowed(w2, "u2", "g1")
       /\ create_room_allowed(w3, "u3", "g2")
       /\ join_room_allowed(w4, "u4", "g2")
       /\ add_ai_allowed(w5, "u3", "g2", 1)
       /\ start_allowed(w6, "u1", "g1")
       /\ start_allowed(w7, "u3", "g2")
       /\ rooms = w.rooms
       /\ player_room_index = w.player_room_index
       /\ play_timeout_tasks = w.play_timeout_tasks
       /\ wire_timeout_tasks = w.wire_timeout_tasks
       /\ ai_action_tasks = w.ai_action_tasks
       /\ saved = Snapshot(w)
       /\ last_update = w.outbox
       /\ disk = DiskFresh
       /\ start_calls = EmptyDict
       /\ obs = Obs("start", "g2", "u3", NoToken, "", NoToken, NoBefore)

PairChallenge == ChallengeBy(PairUsers, PairRooms, MaxPairToken)
PairCutWire == CutWireBy(PairUsers, PairRooms, MaxPairToken)
PairPrivatePlay == PrivatePlayBy(PairUsers, MaxPairToken)
PairPlayTimeout == PlayTimeoutWithin(MaxPairToken)
PairWireTimeout == WireTimeoutWithin(MaxPairToken)
PairKick == KickOf(PairRooms)
PairAiApply == AiApplyWithin(MaxPairToken)

NextPair ==
    \/ PairChallenge \/ PairCutWire \/ PairPrivatePlay \/ PairPlayTimeout \/ PairWireTimeout
    \/ PairKick \/ AiDecide \/ PairAiApply

SpecPair == InitPair /\ [][NextPair]_vars

-----------------------------------------------------------------------------
(* SpecCrash: a lobby whose saves are taken apart.  A command hands its payload  *)
(* to StateRepository.save, and the write goes on piece by piece before the next *)
(* command; the process may die at any moment and is then constructed again from *)
(* the state file it finds.                                                      *)

CrashUsers == {"u1", "u2"}
CrashRooms == {"g1", "g2"}

\* no write is wanted or under way
Synced == disk.pc = "idle" /\ disk.handed = Payload(saved)

CrashCreateRoom == Synced /\ CreateRoomBy(CrashUsers, CrashRooms)
CrashJoinRoom == Synced /\ JoinRoomBy(CrashUsers, CrashRooms)
CrashEndRoom == Synced /\ EndRoomBy(CrashUsers, CrashRooms, {})

\* a step of the write: the files change and the fields of self do not
DiskStep(d) ==
    /\ disk' = d
    /\ UNCHANGED <<rooms, player_room_index, play_timeout_tasks, wire_timeout_tasks,
                   ai_action_tasks, saved, last_update, start_calls, obs>>

SaveOpen ==
    /\ disk.pc = "idle" /\ disk.handed # Payload(saved)
    /\ DiskStep(save_open(disk, Payload(saved)))

SaveWrite ==
    /\ disk.pc = "writing"
    /\ Len(disk.tmp_file.text) < Len(json_dump(disk.writing))
    /\ DiskStep(save_write(disk))

SaveClose ==
    /\ disk.pc = "writing"
    /\ Len(disk.tmp_file.text) = Len(json_dump(disk.writing))
    /\ DiskStep(save_close(disk))

SaveReplace == disk.pc = "closed" /\ DiskStep(save_replace(disk))

SaveFailed == disk.pc = "writing" /\ DiskStep(save_failed(disk))

\* the payload _load_state works on: that of the state file, or none
Loaded(d) ==
    IF repository_load(d) = None THEN [rooms |-> EmptyDict, player_room_index |-> EmptyDict]
    ELSE repository_load(d)[1]

\* The process dies, whatever the write was at, and __init__ and initialize run on
\* the files left behind.
Crash ==
    /\ Restart(Loaded(disk))
    /\ disk' = [disk EXCEPT !.pc = "idle", !.handed = Payload(Loaded(disk))]
    /\ start_calls' = EmptyDict
    /\ obs' = Obs("crash", "", NoUser, NoToken, disk.pc, NoToken, NoBefore)

NextCrash ==
    \/ CrashCreateRoom \/ CrashJoinRoom \/ CrashEndRoom
    \/ SaveOpen \/ SaveWrite \/ SaveClose \/ SaveReplace \/ SaveFailed \/ Crash

SpecCrash == Init /\ [][NextCrash]_vars

-----------------------------------------------------------------------------
(* Properties.  They read the step just taken from obs, the state it began in     *)
(* from obs.before and the messages it sent from last_update.                     *)

HasBefore == obs.before # NoBefore
RoomWasLive == HasBefore /\ obs.room \in DOMAIN obs.before.rooms
RoomBefore == obs.before.rooms[obs.room]
RoomIsLive == obs.room \in DOMAIN rooms
RoomNow == rooms[obs.room]
RoomChanged == ~RoomIsLive \/ RoomNow # RoomBefore
Announced(kind) == \E i \in DOMAIN last_update : last_update[i].kind = kind
DueOf(room) ==
    IF room.phase = PHASE_AWAIT_WIRE THEN room.pending_wire_user_id
    ELSE room.current_turn_user_id

TurnKinds == {"play", "challenge", "cut", "play_timer", "wire_timer", "ai_apply"}
JobKinds == {"play_timer", "wire_timer", "ai_decide", "ai_apply"}

\* C1: among the play timer, the wire timer, the AI task and the due player's
\* command, one that changes a started room's state acts for the room's current
\* token T, and leaves the room closed or with a token greater than T; so one that
\* was created for T and runs later finds another token and changes nothing, and
\* at most one of them is effective per token value.
C1_OneEffectiveActionPerTurn ==
    (obs.kind \in TurnKinds /\ RoomWasLive /\ RoomChanged) =>
       /\ obs.captured = RoomBefore.action_token
       /\ (~RoomIsLive \/ RoomNow.action_token > obs.captured)

\* The play timer has eliminated the AI whose task, created for the same token, is
\* still waiting to apply its decision.
C1_Witness ==
    /\ obs.kind = "play_timer" /\ RoomWasLive /\ RoomChanged /\ RoomIsLive
    /\ obs.room \in DOMAIN ai_action_tasks
    /\ ai_action_tasks[obs.room].pc = "decided"
    /\ ai_action_tasks[obs.room].token = obs.captured
    /\ RoomNow.action_token > obs.captured

StaleJob ==
    /\ obs.kind \in JobKinds
    /\ HasBefore
    /\ \/ obs.room \notin DOMAIN obs.before.rooms
       \/ RoomBefore.action_token # obs.captured
       \/ /\ obs.kind # "ai_decide"
          /\ (RoomBefore.phase # obs.phase \/ DueOf(RoomBefore) # obs.uid)

\* the timers other than the one that has just run
OtherTimers(play_tasks, wire_tasks) ==
    <<IF obs.kind = "play_timer" THEN Pop(play_tasks, obs.room) ELSE play_tasks,
      IF obs.kind = "wire_timer" THEN Pop(wire_tasks, obs.room) ELSE wire_tasks>>

\* C2: a play timer, wire timer or AI task that runs after its turn has passed
\* (its room is gone, the token differs from the one it captured, or the phase or
\* the due player differs) leaves the rooms, the membership index, the other
\* timers and the persisted snapshot as they were.
C2_StaleJobChangesNothing ==
    StaleJob =>
       /\ rooms = obs.before.rooms
       /\ player_room_index = obs.before.player_room_index
       /\ saved = obs.before.saved
       /\ OtherTimers(play_timeout_tasks, wire_timeout_tasks)
            = OtherTimers(obs.before.play_timeout_tasks, obs.before.wire_timeout_tasks)

\* An AI task has applied its decision after its token had passed, in a room that
\* still exists.
C2_Witness ==
    /\ StaleJob /\ obs.kind = "ai_apply" /\ RoomWasLive
    /\ RoomBefore.action_token > obs.captured

DueState(room) ==
    <<room.phase, room.current_turn_user_id, room.pending_wire_user_id, room.round_no,
      room.play_deadline_ts, room.wire_deadline_ts>>

\* C3: while a room exists no step lowers its action token, and every step that
\* changes the phase, the turn holder, the pending wire holder, the round or a
\* deadline (a play, a challenge, a round start) raises it.
C3_TokenGrows ==
    /\ (obs.token_before # NoToken /\ RoomIsLive) => RoomNow.action_token >= obs.token_before
    /\ (RoomWasLive /\ RoomIsLive /\ DueState(RoomNow) # DueState(RoomBefore)) =>
          RoomNow.action_token > RoomBefore.action_token

\* A wire cut that the player survived has started the next round.
C3_Witness ==
    /\ obs.kind \in {"cut", "wire_timer"} /\ RoomWasLive /\ RoomIsLive
    /\ Announced("safe")
    /\ RoomNow.round_no = RoomBefore.round_no + 1
    /\ RoomNow.action_token = RoomBefore.action_token + 1

\* C4: when a challenge is resolved, the player sent to cut a wire is the claimant
\* if some card of the claim is neither the target card nor the wild card, and the
\* challenger (the turn holder) otherwise.
C4_BluffRule ==
    \A r \in DOMAIN rooms :
       (rooms[r].phase = PHASE_AWAIT_WIRE /\ rooms[r].last_play # None) =>
          LET last == rooms[r].last_play[1]
              bluff == \E i \in DOMAIN last.cards :
                          last.cards[i] # rooms[r].target_card /\ last.cards[i] # CARD_MAGIC
          IN rooms[r].pending_wire_user_id =
                (IF bluff THEN last.player_id ELSE rooms[r].current_turn_user_id)

\* A claim made of the wild card has been challenged and the challenger punished.
C4_Witness ==
    \E r \in DOMAIN rooms :
       /\ rooms[r].phase = PHASE_AWAIT_WIRE /\ rooms[r].last_play # None
       /\ Contains(rooms[r].last_play[1].cards, CARD_MAGIC)
       /\ rooms[r].pending_wire_user_id = rooms[r].current_turn_user_id
       /\ rooms[r].pending_wire_user_id # rooms[r].last_play[1].player_id

\* C6: in a started room the turn holder, when set, and the pending wire holder,
\* when set, are alive players of the room.
C6_HoldersAlive ==
    \A r \in DOMAIN rooms :
       rooms[r].phase # PHASE_WAITING =>
          /\ rooms[r].current_turn_user_id # NoUser =>
                Contains(alive_ids(rooms[r]), rooms[r].current_turn_user_id)
          /\ rooms[r].pending_wire_user_id # NoUser =>
                Contains(alive_ids(rooms[r]), rooms[r].pending_wire_user_id)

\* A room with an eliminated player waits for a wire cut.
C6_Witness ==
    \E r \in DOMAIN rooms :
       /\ rooms[r].phase = PHASE_AWAIT_WIRE
       /\ Len(alive_ids(rooms[r])) < Len(rooms[r].order)
       /\ rooms[r].pending_wire_user_id # NoUser
       /\ rooms[r].current_turn_user_id # NoUser

\* the player a wire cut or a play deadline is about
Victim == IF obs.kind = "play_timer" THEN obs.uid ELSE RoomBefore.pending_wire_user_id

Eliminated ==
    /\ \/ obs.kind \in {"cut", "wire_timer", "play_timer"}
       \/ obs.kind = "ai_apply" /\ obs.phase = PHASE_AWAIT_WIRE
    /\ RoomWasLive /\ RoomChanged
    /\ Contains(alive_ids(RoomBefore), Victim)
    /\ RoomIsLive => ~RoomNow.players[Victim].alive

Survivors ==
    LET NotVictim(uid) == uid # Victim IN SelectSeq(alive_ids(RoomBefore), NotVictim)

\* C7: after an elimination by a wire cut or a play deadline, if exactly one player
\* is left alive the game is finalized with that player announced as the survivor
\* and the room removed; if none is left the no-survivor result is announced and
\* the room removed; with two or more the next round starts and the room stays.
C7_AfterElimination ==
    Eliminated =>
       IF Len(Survivors) = 1
       THEN ~RoomIsLive /\ \E i \in DOMAIN last_update :
                              last_update[i] = Event("winner", Survivors[1], "")
       ELSE IF Len(Survivors) = 0
       THEN ~RoomIsLive /\ Announced("no_survivor")
       ELSE /\ RoomIsLive
            /\ RoomNow.phase = PHASE_PLAYING
            /\ RoomNow.round_no = RoomBefore.round_no + 1
            /\ alive_ids(RoomNow) = Survivors
            /\ Contains(Survivors, RoomNow.current_turn_user_id)

\* A wire cut has eliminated the second of three players and closed the room.
C7_Witness ==
    /\ Eliminated /\ obs.kind = "cut"
    /\ Len(Survivors) = 1 /\ ~RoomIsLive /\ Announced("winner")

\* C8: a play deadline that fires with the room's token, for the alive turn holder
\* of a room in the playing phase, eliminates that player outright (not alive, hand
\* cleared, no wire cut pending, remaining wires untouched); the room is then
\* finalized if at most one player is alive, and starts a new round otherwise.
C8_PlayDeadlineEliminates ==
    (/\ obs.kind = "play_timer" /\ RoomWasLive
     /\ RoomBefore.phase = PHASE_PLAYING
     /\ RoomBefore.action_token = obs.captured
     /\ RoomBefore.current_turn_user_id = obs.uid
     /\ Contains(alive_ids(RoomBefore), obs.uid)) =>
       LET NotTarget(uid) == uid # obs.uid
           rest == SelectSeq(alive_ids(RoomBefore), NotTarget)
       IN /\ ~Announced("exploded") /\ ~Announced("safe") /\ ~Announced("await_wire")
          /\ IF Len(rest) <= 1 THEN ~RoomIsLive
             ELSE /\ RoomIsLive
                  /\ ~RoomNow.players[obs.uid].alive
                  /\ RoomNow.players[obs.uid].hand = <<>>
                  /\ RoomNow.players[obs.uid].wires_remaining
                       = RoomBefore.players[obs.uid].wires_remaining
                  /\ RoomNow.phase = PHASE_PLAYING
                  /\ RoomNow.pending_wire_user_id = NoUser
                  /\ RoomNow.wire_options = <<>>
                  /\ RoomNow.round_no = RoomBefore.round_no + 1
                  /\ alive_ids(RoomNow) = rest

\* A play deadline has eliminated a human who had already lost a wire, and the
\* next round has started.
C8_Witness ==
    /\ obs.kind = "play_timer" /\ RoomWasLive /\ RoomIsLive
    /\ RoomBefore.action_token = obs.captured
    /\ ~RoomNow.players[obs.uid].alive
    /\ ~RoomNow.players[obs.uid].is_ai
    /\ Len(RoomNow.players[obs.uid].wires_remaining) = 2

WireCutStep ==
    /\ \/ obs.kind \in {"cut", "wire_timer"}
       \/ obs.kind = "ai_apply" /\ obs.phase = PHASE_AWAIT_WIRE
    /\ RoomWasLive /\ RoomChanged
    /\ RoomBefore.phase = PHASE_AWAIT_WIRE

\* the announcements of a wire cut's outcome among the messages of the last step
CutResults == {i \in DOMAIN last_update : last_update[i].kind \in {"exploded", "safe"}}

\* C5: a wire cut by the pending holder takes one of the offered colors and
\* eliminates the holder exactly when that color is the holder's bomb color or one
\* option was offered; otherwise the holder stays alive in the room, with the same
\* bomb color, and loses the chosen color from the remaining wires.  A holder with
\* one remaining wire is eliminated by the cut.
C5_EliminationRule ==
    WireCutStep =>
       /\ Cardinality(CutResults) = 1
       /\ \A i \in CutResults :
            LET cut == last_update[i]
                holder == RoomBefore.pending_wire_user_id
                player == RoomBefore.players[holder]
                options == RoomBefore.wire_options
                hit == cut.color = player.bomb_color \/ Len(options) = 1
            IN /\ cut.uid = holder
               /\ Contains(options, cut.color)
               /\ hit <=> cut.kind = "exploded"
               /\ hit => (RoomIsLive => ~RoomNow.players[holder].alive)
               /\ ~hit =>
                    /\ RoomIsLive
                    /\ RoomNow.players[holder].alive
                    /\ RoomNow.players[holder].bomb_color = player.bomb_color
                    /\ RoomNow.players[holder].wires_remaining
                         = Remove(player.wires_remaining, cut.color)
               /\ Len(player.wires_remaining) = 1 => cut.kind = "exploded"

\* A holder who had survived two cuts has cut the one wire left and is out.
C5_Witness ==
    /\ WireCutStep
    /\ Len(RoomBefore.wire_options) = 1
    /\ Len(RoomBefore.players[RoomBefore.pending_wire_user_id].wires_remaining) = 1
    /\ Announced("exploded")

\* C9: no player id is a member of two rooms, and every human member of a room is
\* mapped by the membership index to that room.
C9_OneRoomPerPlayer ==
    /\ \A r1, r2 \in DOMAIN rooms :
          r1 # r2 => DOMAIN rooms[r1].players \cap DOMAIN rooms[r2].players = {}
    /\ \A r \in DOMAIN rooms :
          \A uid \in DOMAIN rooms[r].players :
             ~rooms[r].players[uid].is_ai =>
                uid \in DOMAIN player_room_index /\ player_room_index[uid] = r

\* Two rooms are open, one of them in a game with AI seats, and every human is
\* seated.
C9_Witness ==
    /\ Cardinality(DOMAIN rooms) = 2
    /\ \E r \in DOMAIN rooms : rooms[r].phase = PHASE_PLAYING /\ ai_ids(rooms[r]) # <<>>
    /\ \A uid \in LobbyUsers : \E r \in DOMAIN rooms : uid \in DOMAIN rooms[r].players

\* C10: for every starting player count from MIN_PLAYERS to MAX_PLAYERS the locked
\* deck counts sum to the count times FIXED_HAND_SIZE, and every started room holds
\* the counts locked for the number of players it started with.
C10_DeckTotal ==
    /\ \A n \in MIN_PLAYERS..MAX_PLAYERS :
          DeckTotal(build_locked_deck_counts(n)) = n * FIXED_HAND_SIZE
    /\ \A r \in DOMAIN rooms :
          rooms[r].phase # PHASE_WAITING =>
             /\ rooms[r].initial_player_count \in MIN_PLAYERS..MAX_PLAYERS
             /\ DeckTotal(rooms[r].round_deck_counts)
                  = rooms[r].initial_player_count * FIXED_HAND_SIZE
             /\ rooms[r].round_deck_total = rooms[r].initial_player_count * FIXED_HAND_SIZE

\* A game has started with five players.
C10_Witness ==
    \E r \in DOMAIN rooms :
       /\ rooms[r].phase = PHASE_PLAYING
       /\ rooms[r].initial_player_count = MAX_PLAYERS
       /\ Len(rooms[r].order) = MAX_PLAYERS

\* the state a start command that was accepted and passed the probes leaves
JustStarted ==
    /\ obs.kind = "start" /\ RoomIsLive
    /\ RoomNow.phase = PHASE_PLAYING

DealtFive(room) ==
    /\ \A i \in DOMAIN room.order : Len(room.players[room.order[i]].hand) = FIXED_HAND_SIZE
    /\ Contains(TARGET_CARDS, room.target_card)

\* C11 as stated: with 3 starting players the start locks 15 cards, 4 sun, 4 moon,
\* 4 star and 3 wild; each player is dealt 5 cards and the target is a non-wild face.
C11_AsStated ==
    (JustStarted /\ Len(RoomNow.order) = 3) =>
       /\ RoomNow.round_deck_total = 15
       /\ RoomNow.round_deck_counts = [sun |-> 4, moon |-> 4, star |-> 4, magic |-> 3]
       /\ DealtFive(RoomNow)

\* C11: with 3 starting players the start locks 15 cards, 5 sun, 5 moon, 4 star and
\* 1 wild (4, 4, 4, 1 by truncation, the remainder of 2 to sun and moon); each of
\* the 3 players is dealt 5 cards and the target is one of the three non-wild faces.
C11_ThreePlayerDeck ==
    (JustStarted /\ Len(RoomNow.order) = 3) =>
       /\ RoomNow.round_deck_total = 15
       /\ RoomNow.round_deck_counts = [sun |-> 5, moon |-> 5, star |-> 4, magic |-> 1]
       /\ DealtFive(RoomNow)

\* Three humans have started a game whose first target is the star.
C11_Witness ==
    /\ JustStarted /\ Len(RoomNow.order) = 3
    /\ ai_ids(RoomNow) = <<>>
    /\ RoomNow.round_no = 1
    /\ RoomNow.target_card = CARD_STAR

DeckLock(room) == <<room.round_deck_counts, room.round_deck_total, room.initial_player_count>>

\* C12: no step changes the deck counts, the deck total or the recorded starting
\* player count of a room that is in a game and is still there after the step.
C12_DeckLockedForTheMatch ==
    [][\A r \in DOMAIN rooms \cap DOMAIN rooms' :
          rooms[r].phase # PHASE_WAITING => DeckLock(rooms'[r]) = DeckLock(rooms[r])]_vars

\* A game is in its third round or later, one player down, with the deck locked
\* for the number of players it started with.
C12_Witness ==
    \E r \in DOMAIN rooms :
       /\ rooms[r].phase # PHASE_WAITING
       /\ rooms[r].round_no >= 3
       /\ Len(alive_ids(rooms[r])) < rooms[r].initial_player_count
       /\ rooms[r].round_deck_counts = build_locked_deck_counts(rooms[r].initial_player_count)

\* a round has been dealt and nobody has played yet
RoundStart(room) == room.phase = PHASE_PLAYING /\ room.last_play = None

CountOf(cards, c) == Cardinality({i \in DOMAIN cards : cards[i] = c})

\* the number of cards of face c in the hands of the room
HeldOf(room, c) ==
    SumSeq([i \in DOMAIN room.order |-> CountOf(room.players[room.order[i]].hand, c)])

\* C13: at the start of a round every alive player holds FIXED_HAND_SIZE cards and
\* every eliminated player none; in a started room the hands together hold, of each
\* face, at most the locked count; and no round start aborts for want of cards.
C13_HandsFromLockedDeck ==
    /\ \A r \in DOMAIN rooms :
          /\ RoundStart(rooms[r]) =>
                \A i \in DOMAIN rooms[r].order :
                   LET player == rooms[r].players[rooms[r].order[i]]
                   IN IF player.alive THEN Len(player.hand) = FIXED_HAND_SIZE
                      ELSE player.hand = <<>>
          /\ rooms[r].phase # PHASE_WAITING =>
                \A c \in Range(DECK_CARDS) :
                   HeldOf(rooms[r], c) <= Get(rooms[r].round_deck_counts, c, 0)
    /\ ~Announced("deck_abort")

\* A round has been dealt to the four players left of five.
C13_Witness ==
    \E r \in DOMAIN rooms :
       /\ RoundStart(rooms[r])
       /\ rooms[r].round_no >= 2
       /\ rooms[r].initial_player_count = MAX_PLAYERS
       /\ Len(alive_ids(rooms[r])) = MAX_PLAYERS - 1

\* C14: in every state, loading what _save_state_locked writes of the rooms and the
\* membership index yields rooms equal to the original ones field by field and an
\* equal membership index.
C14_RoundTrip ==
    load_state(Payload(World)) = Snapshot(World)

\* C15: after a restart from a state file in which the turn holder of a room in the
\* playing phase is the id of no player, the turn holder of the loaded room is an
\* alive player of the room.
C15_RepairedHolderAlive ==
    (obs.kind = "reload_dangling" /\ RoomIsLive /\ RoomNow.phase = PHASE_PLAYING) =>
       Contains(alive_ids(RoomNow), RoomNow.current_turn_user_id)

\* a play the claim calls rejected: the sender's room is not in the playing phase, or
\* the sender is not the turn holder, or an index is out of range, repeated or not
\* positive
PlayRefused(u, indices) ==
    /\ u \in DOMAIN player_room_index
    /\ player_room_index[u] \in DOMAIN rooms
    /\ LET room == rooms[player_room_index[u]]
       IN \/ room.phase # PHASE_PLAYING
          \/ u # room.current_turn_user_id
          \/ \E i \in DOMAIN indices : indices[i] > Len(room.players[u].hand)
          \/ \E i, j \in DOMAIN indices : i # j /\ indices[i] = indices[j]
          \/ \E i \in DOMAIN indices : indices[i] <= 0

ChallengeRefused(u, r) ==
    /\ r \in DOMAIN rooms
    /\ \/ rooms[r].phase # PHASE_PLAYING
       \/ rooms[r].last_play = None
       \/ u # rooms[r].current_turn_user_id

\* arg names an offered colour, or the position of one
Offered(arg, room) ==
    \/ Contains(room.wire_options, arg)
    \/ \E i \in DOMAIN room.wire_options : arg = ToString(i)

CutRefused(u, r, arg) ==
    /\ r \in DOMAIN rooms
    /\ \/ rooms[r].phase # PHASE_AWAIT_WIRE
       \/ u # rooms[r].pending_wire_user_id
       \/ ~Offered(arg, rooms[r])

JoinRefused(u, r) ==
    /\ r \in DOMAIN rooms
    /\ \/ Len(rooms[r].order) >= MAX_PLAYERS
       \/ rooms[r].phase # PHASE_WAITING
       \/ u \in DOMAIN rooms[r].players

NothingChanged ==
    UNCHANGED <<rooms, player_room_index, play_timeout_tasks, wire_timeout_tasks,
                ai_action_tasks, saved>>

\* C16: a step that is a play, a challenge, a wire cut or a join which the claim's
\* conditions reject (wrong phase, wrong player, bad indices, no claim, colour not
\* offered, room full, started or already joined) leaves the rooms with their
\* tokens, the membership index, the timers and the saved snapshot as they were.
C16_RejectedChangesNothing ==
    [][/\ \A u \in TurnUsers, indices \in PlayArgs :
             (PlayRefused(u, indices) /\ CmdPrivatePlay(u, indices, Rnd)) => NothingChanged
       /\ \A u \in TurnUsers :
             (ChallengeRefused(u, WireRoom) /\ CmdChallenge(u, WireRoom, Rnd)) => NothingChanged
       /\ \A u \in TurnUsers, arg \in WireArgs :
             (CutRefused(u, WireRoom, arg) /\ CmdCutWire(u, WireRoom, arg, Rnd)) => NothingChanged
       /\ \A u \in TurnUsers :
             (JoinRefused(u, WireRoom) /\ CmdJoinRoom(u, WireRoom)) => NothingChanged]_vars

\* The waiting room is full and u4, who is not in it, cannot join; a play and a
\* challenge by its members are in the wrong phase.
C16_Witness ==
    /\ WireRoom \in DOMAIN rooms
    /\ rooms[WireRoom].phase = PHASE_WAITING
    /\ Len(rooms[WireRoom].order) = MAX_PLAYERS
    /\ JoinRefused("u4", WireRoom)
    /\ "u4" \notin DOMAIN rooms[WireRoom].players
    /\ PlayRefused("u1", <<3>>)
    /\ ChallengeRefused("u1", WireRoom)

\* the step was a play that took effect: the private play command, or the AI task
\* laying cards
PlayApplied ==
    /\ RoomWasLive /\ RoomChanged
    /\ \/ obs.kind = "play"
       \/ /\ obs.kind = "ai_apply" /\ obs.phase = PHASE_PLAYING
          /\ RoomIsLive /\ RoomNow.last_play # None
          /\ RoomNow.last_play # RoomBefore.last_play

\* the first alive player met walking the order from the seat after uid, wrapping
NextAliveInOrder(room, uid) ==
    LET n == Len(room.order)
        k == IndexOf(room.order, uid)
        At(i) == room.order[((k - 1 + i) % n) + 1]
        first == CHOOSE i \in 1..n :
                    /\ room.players[At(i)].alive
                    /\ \A j \in 1..(i - 1) : ~room.players[At(j)].alive
    IN At(first)

\* hand without the cards at the positions in P, and the cards at those positions
Without(hand, P) ==
    LET Kept(i) == i \notin P
        idx == SelectSeq([i \in DOMAIN hand |-> i], Kept)
    IN [i \in DOMAIN idx |-> hand[idx[i]]]

Picked(hand, P) ==
    LET Taken(i) == i \in P
        idx == SelectSeq([i \in DOMAIN hand |-> i], Taken)
    IN [i \in DOMAIN idx |-> hand[idx[i]]]

\* C17: a play takes effect only in the playing phase and for the turn holder; when
\* the actor keeps cards, the cards at the chosen positions leave the hand and are
\* the pending claim, with the round's target; the turn passes to the next alive
\* player after the actor in the order, wrapping; the phase stays playing, and the
\* play deadline is armed for the new holder with the new token.
C17_PlayApplied ==
    PlayApplied =>
       /\ RoomBefore.phase = PHASE_PLAYING
       /\ RoomBefore.current_turn_user_id = obs.uid
       /\ (RoomIsLive /\ RoomNow.players[obs.uid].hand # <<>>) =>
            LET old == RoomBefore.players[obs.uid].hand
                claim == RoomNow.last_play[1]
                holder == NextAliveInOrder(RoomBefore, obs.uid)
            IN /\ RoomNow.last_play # None
               /\ claim.player_id = obs.uid
               /\ claim.declared_target = RoomBefore.target_card
               /\ \E P \in SUBSET DOMAIN old :
                     /\ P # {}
                     /\ claim.cards = Picked(old, P)
                     /\ RoomNow.players[obs.uid].hand = Without(old, P)
               /\ \A uid \in DOMAIN RoomBefore.players :
                     uid # obs.uid => RoomNow.players[uid] = RoomBefore.players[uid]
               /\ RoomNow.current_turn_user_id = holder
               /\ holder # obs.uid
               /\ RoomNow.phase = PHASE_PLAYING
               /\ RoomNow.round_no = RoomBefore.round_no
               /\ RoomNow.action_token = RoomBefore.action_token + 1
               /\ RoomNow.play_deadline_ts = DEADLINE_SET
               /\ obs.room \in DOMAIN play_timeout_tasks
               /\ play_timeout_tasks[obs.room] = TimerTask(RoomNow.action_token, holder)
               /\ obs.room \notin DOMAIN wire_timeout_tasks

\* A human has laid two cards and the turn has wrapped around to the first seat.
C17_Witness ==
    /\ PlayApplied /\ obs.kind = "play" /\ RoomIsLive
    /\ RoomNow.phase = PHASE_PLAYING
    /\ Len(RoomNow.last_play[1].cards) = 2
    /\ Len(RoomNow.players[obs.uid].hand) = 3
    /\ IndexOf(RoomNow.order, RoomNow.current_turn_user_id) < IndexOf(RoomNow.order, obs.uid)
    /\ \E uid \in DOMAIN RoomNow.players : ~RoomNow.players[uid].alive

\* a room in the playing phase whose pending claim was made by a player with no cards
ClaimantOutOfCards(room) ==
    /\ room.phase = PHASE_PLAYING
    /\ room.last_play # None
    /\ room.last_play[1].player_id \in DOMAIN room.players
    /\ room.players[room.last_play[1].player_id].hand = <<>>

\* the step was a play that took the actor's last cards and left the room open
PlayedLastCards ==
    /\ PlayApplied /\ RoomIsLive
    /\ RoomBefore.players[obs.uid].hand # <<>>
    /\ RoomNow.players[obs.uid].hand = <<>>

\* C18: no room is ever in the playing phase with a pending claim whose claimant
\* holds no cards; right after a play that takes the actor's last cards the room,
\* unless closed, awaits a wire cut by the actor when some played card is neither the
\* target nor the wild card, and by the next alive player otherwise.
C18_ForcedShowdown ==
    /\ \A r \in DOMAIN rooms : ~ClaimantOutOfCards(rooms[r])
    /\ PlayedLastCards =>
          LET cards == RoomNow.last_play[1].cards
              bluff == \E i \in DOMAIN cards :
                          cards[i] # RoomBefore.target_card /\ cards[i] # CARD_MAGIC
          IN /\ RoomNow.last_play[1].player_id = obs.uid
             /\ Len(cards) = Len(RoomBefore.players[obs.uid].hand)
             /\ RoomNow.phase = PHASE_AWAIT_WIRE
             /\ RoomNow.pending_wire_user_id =
                  IF bluff THEN obs.uid ELSE NextAliveInOrder(RoomBefore, obs.uid)

\* A truthful last play: the next player is the one who must cut.
C18_Witness ==
    /\ PlayedLastCards
    /\ RoomNow.phase = PHASE_AWAIT_WIRE
    /\ RoomNow.pending_wire_user_id # obs.uid

\* A bluffing last play: the actor must cut.
C18_WitnessBluff ==
    /\ PlayedLastCards
    /\ RoomNow.phase = PHASE_AWAIT_WIRE
    /\ RoomNow.pending_wire_user_id = obs.uid

\* the step was a challenge command that took effect
ChallengeApplied == obs.kind = "challenge" /\ RoomWasLive /\ RoomChanged

\* the player a challenge by obs.uid punishes: the claimant when some card of the
\* claim is neither the target nor the wild card, the challenger otherwise
PunishedOf(room) ==
    LET claim == room.last_play[1]
    IN IF \E i \in DOMAIN claim.cards :
             claim.cards[i] # room.target_card /\ claim.cards[i] # CARD_MAGIC
       THEN claim.player_id
       ELSE obs.uid

\* C19: a challenge takes effect only in the playing phase, with a pending claim, for
\* the turn holder; then the play deadline is cancelled, the room awaits a wire cut by
\* the punished player, the options are that player's wires not yet cut (all three for
\* a player who has never cut), and the wire deadline is armed for that player.
C19_ChallengeApplied ==
    ChallengeApplied =>
       /\ RoomBefore.phase = PHASE_PLAYING
       /\ RoomBefore.last_play # None
       /\ RoomBefore.current_turn_user_id = obs.uid
       /\ RoomIsLive
       /\ LET punished_id == PunishedOf(RoomBefore)
              punished == RoomBefore.players[punished_id]
          IN /\ RoomNow.phase = PHASE_AWAIT_WIRE
             /\ RoomNow.pending_wire_user_id = punished_id
             /\ Range(RoomNow.wire_options) = Range(punished.wires_remaining)
             /\ Len(RoomNow.wire_options) = Cardinality(Range(punished.wires_remaining))
             /\ punished.wires_remaining = WIRE_COLORS => RoomNow.wire_options = WIRE_COLORS
             /\ RoomNow.players = RoomBefore.players
             /\ RoomNow.play_deadline_ts = DEADLINE_UNSET
             /\ obs.room \notin DOMAIN play_timeout_tasks
             /\ RoomNow.action_token = RoomBefore.action_token + 1
             /\ RoomNow.wire_deadline_ts = DEADLINE_SET
             /\ obs.room \in DOMAIN wire_timeout_tasks
             /\ wire_timeout_tasks[obs.room] = TimerTask(RoomNow.action_token, punished_id)

\* what a room that has just left the waiting phase looks like, given the room as it
\* was in the waiting phase
StartedFrom(was, now) ==
    /\ Len(was.order) >= 3 /\ Len(was.order) <= 5
    /\ \E i \in DOMAIN was.order : ~was.players[was.order[i]].is_ai
    /\ now.order = was.order
    /\ \A i \in DOMAIN now.order :
          LET p == now.players[now.order[i]]
          IN /\ p.alive
             /\ p.wires_remaining = WIRE_COLORS
             /\ Contains(WIRE_COLORS, p.bomb_color)
             /\ Len(p.hand) = FIXED_HAND_SIZE
    /\ now.initial_player_count = Len(was.order)
    /\ now.round_deck_counts = build_locked_deck_counts(Len(was.order))
    /\ now.phase = PHASE_PLAYING
    /\ now.round_no = 1
    /\ Contains(TARGET_CARDS, now.target_card)
    /\ Contains(now.order, now.current_turn_user_id)
    /\ now.last_play = None

\* C20: a room leaves the waiting phase only with 3 to 5 members of which one at
\* least is human, and only into the playing phase with round 1 dealt: every member
\* alive with the three wires and a bomb colour among them, the deck composition the
\* one of the member count at that moment; and a new room is always waiting.
C20_StartOfMatch ==
    [][/\ \A r \in DOMAIN rooms \cap DOMAIN rooms' :
             (rooms[r].phase = PHASE_WAITING /\ rooms'[r].phase # PHASE_WAITING) =>
                StartedFrom(rooms[r], rooms'[r])
       /\ \A r \in DOMAIN rooms' \ DOMAIN rooms : rooms'[r].phase = PHASE_WAITING]_vars

\* A match of four has just started with an AI seat among the members, the bombs on
\* the blue wire.
C20_Witness ==
    /\ JustStarted
    /\ Len(RoomNow.order) = 4
    /\ \E i \in DOMAIN RoomNow.order : RoomNow.players[RoomNow.order[i]].is_ai
    /\ \A i \in DOMAIN RoomNow.order : RoomNow.players[RoomNow.order[i]].bomb_color = WIRE_BLUE
    /\ RoomNow.round_no = 1

\* a sequence without a repeated element
NoRepeat(seq) == \A i, j \in DOMAIN seq : seq[i] = seq[j] => i = j

\* seq continues the sequence old
Extends(seq, old) == Len(seq) >= Len(old) /\ SubSeq(seq, 1, Len(old)) = old

\* u is a member of a room other than r
InOtherRoom(u, r) == \E q \in DOMAIN rooms : q # r /\ Contains(rooms[q].order, u)

\* a join of room r by u that the claim says is refused
JoinBarred(u, r) ==
    /\ r \in DOMAIN rooms
    /\ \/ rooms[r].phase # PHASE_WAITING
       \/ Len(rooms[r].order) >= 5
       \/ Contains(rooms[r].order, u)
       \/ InOtherRoom(u, r)

\* C21: no room has more than 5 members and no player is twice in a room's order; the
\* order of a room gets longer only while the room is waiting, by members added at
\* its end; and a join is refused, changing nothing, when the room is started, full,
\* holds the player already, or the player is a member of another room.
C21_MembershipGrowsInWaiting ==
    [][/\ \A r \in DOMAIN rooms' :
             Len(rooms'[r].order) <= 5 /\ NoRepeat(rooms'[r].order)
       /\ \A r \in DOMAIN rooms \cap DOMAIN rooms' :
             Len(rooms'[r].order) > Len(rooms[r].order) =>
                /\ rooms[r].phase = PHASE_WAITING
                /\ Extends(rooms'[r].order, rooms[r].order)
       /\ \A u \in SeatsUsers, r \in LobbyRooms :
             (JoinBarred(u, r) /\ CmdJoinRoom(u, r)) => NothingChanged]_vars

\* One group's room is full with u2 outside it, a member of the other group's room,
\* which has started.
C21_Witness ==
    /\ "g1" \in DOMAIN rooms /\ "g2" \in DOMAIN rooms
    /\ Len(rooms["g1"].order) = 5
    /\ rooms["g1"].phase = PHASE_WAITING
    /\ ~Contains(rooms["g1"].order, "u2")
    /\ Contains(rooms["g2"].order, "u2")
    /\ rooms["g2"].phase = PHASE_PLAYING
    /\ JoinBarred("u2", "g1") /\ JoinBarred("u1", "g2")

\* the positions of the AI seats in the order of a room, and of its last n AI seats
AiSeats(room) == {i \in DOMAIN room.order : room.players[room.order[i]].is_ai}

LastAiSeats(room, n) ==
    {i \in AiSeats(room) : Cardinality({j \in AiSeats(room) : j > i}) < n}

Humans(room) == {room.order[i] : i \in DOMAIN room.order \ AiSeats(room)}

Smaller(a, b) == IF a < b THEN a ELSE b

\* the AI seats of a room, as a set of ids
AiMembers(room) == {room.order[i] : i \in AiSeats(room)}

\* C22: the AI seats of a room change only while it is waiting; an add-AI that takes
\* effect appends min(requested, free seats) AI seats and a remove-AI that takes
\* effect drops the last min(requested, AI seats) AI seats of the order, the seats
\* added latest, both leaving the humans as they were; every room has a human member.
C22_AiSeatsInWaiting ==
    [][/\ \A r \in DOMAIN rooms \cap DOMAIN rooms' :
             AiMembers(rooms'[r]) # AiMembers(rooms[r]) =>
                rooms[r].phase = PHASE_WAITING /\ rooms'[r].phase = PHASE_WAITING
       /\ \A r \in DOMAIN rooms' : Humans(rooms'[r]) # {}
       /\ \A u \in SeatsUsers, r \in LobbyRooms, count \in CountArgs :
             /\ (~NothingChanged /\ \E bomb \in Range(WIRE_COLORS) : CmdAddAi(u, r, count, bomb)) =>
                   LET add_n == Smaller(count, 5 - Len(rooms[r].order))
                   IN /\ add_n >= 1
                      /\ Len(rooms'[r].order) = Len(rooms[r].order) + add_n
                      /\ Len(rooms'[r].order) <= 5
                      /\ Extends(rooms'[r].order, rooms[r].order)
                      /\ Cardinality(AiSeats(rooms'[r])) = Cardinality(AiSeats(rooms[r])) + add_n
                      /\ Humans(rooms'[r]) = Humans(rooms[r])
             /\ (~NothingChanged /\ CmdRemoveAi(u, r, count)) =>
                   LET remove_n == Smaller(count, Cardinality(AiSeats(rooms[r])))
                   IN /\ remove_n >= 1
                      /\ rooms'[r].order = Without(rooms[r].order, LastAiSeats(rooms[r], remove_n))
                      /\ DOMAIN rooms'[r].players = Range(rooms'[r].order)
                      /\ Humans(rooms'[r]) = Humans(rooms[r])]_vars

\* The owner has just removed AI seats: of three seats allotted the first is left,
\* with a human seated after it.
C22_Witness ==
    /\ obs.kind = "remove_ai" /\ obs.room \in DOMAIN rooms
    /\ rooms[obs.room].ai_seq = 3
    /\ Len(rooms[obs.room].order) = 3
    /\ rooms[obs.room].order[2] = AiUid(obs.room, 1)
    /\ ~rooms[obs.room].players[rooms[obs.room].order[3]].is_ai

\* the rooms this step has closed
Closed == DOMAIN rooms \ DOMAIN rooms'

\* what is kept for room q: the room, the index entries that point to it, its timers
KeptFor(q, rms, index, plays, wires) ==
    <<rms[q], {u \in DOMAIN index : index[u] = q},
      IF q \in DOMAIN plays THEN <<plays[q]>> ELSE <<>>,
      IF q \in DOMAIN wires THEN <<wires[q]>> ELSE <<>>>>

\* C23: a step that closes a room leaves no entry of the membership index pointing
\* to it and no play timer, wire timer or AI task for it, and leaves every other room
\* with its index entries and timers as they were; the index and the tasks never
\* refer to a room that is not in the registry.
C23_ClosingARoom ==
    [][/\ \A r \in Closed :
             /\ \A u \in DOMAIN player_room_index' : player_room_index'[u] # r
             /\ r \notin DOMAIN play_timeout_tasks'
             /\ r \notin DOMAIN wire_timeout_tasks'
             /\ r \notin DOMAIN ai_action_tasks'
       /\ Closed # {} =>
             \A q \in DOMAIN rooms \ Closed :
                /\ q \in DOMAIN rooms'
                /\ KeptFor(q, rooms', player_room_index', play_timeout_tasks', wire_timeout_tasks')
                     = KeptFor(q, rooms, player_room_index, play_timeout_tasks, wire_timeout_tasks)
       /\ \A u \in DOMAIN player_room_index' : player_room_index'[u] \in DOMAIN rooms'
       /\ DOMAIN play_timeout_tasks' \cup DOMAIN wire_timeout_tasks'
             \cup DOMAIN ai_action_tasks' \subseteq DOMAIN rooms']_vars

\* The match of g1 has just been finalized by a wire cut while g2's room stays open.
C23_Witness ==
    /\ obs.kind \in {"cut", "wire_timer", "ai_apply"}
    /\ obs.room = "g1" /\ "g1" \notin DOMAIN rooms
    /\ obs.before # NoBefore /\ "g1" \in DOMAIN obs.before.rooms
    /\ obs.before.rooms["g1"].phase = PHASE_AWAIT_WIRE
    /\ CloseRoom \in DOMAIN rooms
    /\ player_room_index = [u \in {CloseOwner} |-> CloseRoom]

\* the step was the AI task acting, with the room's token, as the alive turn holder
\* of a room in the playing phase
AiMoved ==
    /\ obs.kind = "ai_apply" /\ obs.phase = PHASE_PLAYING
    /\ RoomWasLive
    /\ RoomBefore.phase = PHASE_PLAYING
    /\ RoomBefore.action_token = obs.captured
    /\ RoomBefore.current_turn_user_id = obs.uid
    /\ obs.uid \in DOMAIN RoomBefore.players
    /\ RoomBefore.players[obs.uid].is_ai
    /\ RoomBefore.players[obs.uid].alive

AiMovedFirst == AiMoved /\ RoomBefore.last_play = None

\* C24: an AI task that has decided for a room with no pending claim, the room still
\* at the task's token, holds a play of some cards, never a challenge; and when the
\* AI task acts as the first mover of a round the step is a play: the room stays in
\* the playing phase of the same round with the AI's claim pending, and no challenge
\* is announced or resolved.
C24_AiFirstMoverPlays ==
    /\ \A r \in DOMAIN ai_action_tasks \cap DOMAIN rooms :
          (/\ ai_action_tasks[r].pc = "decided"
           /\ ai_action_tasks[r].phase = PHASE_PLAYING
           /\ ai_action_tasks[r].token = rooms[r].action_token
           /\ rooms[r].last_play = None) =>
             /\ ai_action_tasks[r].decision.action = "play"
             /\ ai_action_tasks[r].decision.indices # <<>>
    /\ AiMovedFirst =>
          /\ RoomIsLive
          /\ RoomNow.phase = PHASE_PLAYING
          /\ RoomNow.round_no = RoomBefore.round_no
          /\ RoomNow.last_play # None
          /\ RoomNow.last_play[1].player_id = obs.uid
          /\ Len(RoomNow.last_play[1].cards) >= 1
          /\ RoomNow.pending_wire_user_id = NoUser
          /\ ~Announced("ai_challenge")
          /\ ~Announced("reveal_liar") /\ ~Announced("reveal_truthful")

\* An AI seat has just opened a round with a play.
C24_Witness ==
    /\ AiMovedFirst /\ RoomIsLive
    /\ RoomNow.last_play # None
    /\ RoomNow.last_play[1].player_id = obs.uid

\* positions a player holding hand may lay as an AI: one to ai_max_play_cards of
\* them, each a position of the hand, none twice
Playable(indices, hand) ==
    /\ Len(indices) >= 1 /\ Len(indices) <= ai_max_play_cards
    /\ \A i \in DOMAIN indices : indices[i] >= 1 /\ indices[i] <= Len(hand)
    /\ NoRepeat(indices)

\* the step was the AI task laying cards, the room left open
AiPlayed ==
    /\ AiMoved /\ RoomIsLive
    /\ RoomNow.last_play # None
    /\ RoomNow.last_play # RoomBefore.last_play

\* C25: the play an AI task has decided on, for the hand the AI holds at the task's
\* token, names one to ai_max_play_cards positions of that hand, none twice; and a
\* claim laid by the AI task holds one to ai_max_play_cards cards, the cards at as
\* many distinct positions of the hand the AI held, which leave that hand.
C25_AiClaimWithinLimits ==
    /\ \A r \in DOMAIN ai_action_tasks \cap DOMAIN rooms :
          (/\ ai_action_tasks[r].pc = "decided"
           /\ ai_action_tasks[r].phase = PHASE_PLAYING
           /\ ai_action_tasks[r].token = rooms[r].action_token
           /\ ai_action_tasks[r].decision.action = "play") =>
             Playable(ai_action_tasks[r].decision.indices,
                      rooms[r].players[ai_action_tasks[r].ai_uid].hand)
    /\ AiPlayed =>
          LET held == RoomBefore.players[obs.uid].hand
              claim == RoomNow.last_play[1]
          IN /\ claim.player_id = obs.uid
             /\ Len(claim.cards) >= 1
             /\ Len(claim.cards) <= ai_max_play_cards
             /\ \E P \in SUBSET DOMAIN held :
                   /\ Cardinality(P) = Len(claim.cards)
                   /\ claim.cards = Picked(held, P)
                   /\ RoomNow.players[obs.uid].hand = Without(held, P)

\* An AI seat has just laid as many cards as it may.
C25_Witness ==
    /\ AiPlayed
    /\ Len(RoomNow.last_play[1].cards) = ai_max_play_cards
    /\ Len(RoomNow.players[obs.uid].hand) = FIXED_HAND_SIZE - ai_max_play_cards

\* an attempt that yields a well-formed answer legal for the AI in the room: a
\* challenge when a claim is pending, or a play of positions the AI may lay
Legal(outcome, room, ai_uid) ==
    /\ outcome.kind = "text"
    /\ \/ outcome.data.action = "challenge" /\ room.last_play # None
       \/ /\ outcome.data.action = "play"
          /\ Playable(outcome.data.indices, room.players[ai_uid].hand)

\* the decision such an answer stands for
AnswerOf(outcome) ==
    IF outcome.data.action = "challenge" THEN Decision("challenge", <<>>, "")
    ELSE Decision("play", SortAsc(Range(outcome.data.indices)), "")

\* the rooms in which an AI seat is due to play or challenge
AiDue == {r \in DOMAIN rooms : rooms[r].phase = PHASE_PLAYING /\ should_run(rooms[r])}

\* C26: for every room where an AI seat is due, every provider setting, every course
\* of the provider's calls (timeout, error, or any reply) and every heuristic
\* decision, _decide_ai_action returns a play or a challenge: the heuristic decision
\* with no call made when no provider is configured or found; else the answer of the
\* first attempt that is well-formed and legal, after that many calls; and the
\* heuristic decision after retries + 1 calls when no attempt is.  A task that has
\* decided never holds more than retries + 1 calls.
C26_DecisionAlwaysReturned ==
    /\ \A r \in AiDue :
          LET room == rooms[r]
              ai_uid == room.current_turn_user_id
              attempts == ai_llm_retry_times + 1
          IN \A provider \in Providers,
                outcomes \in [1..attempts -> AttemptOutcomes(LlmReplies)],
                fallback \in fallback_ai_decision(room, ai_uid) :
                LET res == decide_ai_action_run(room, ai_uid, provider, outcomes, fallback)
                    good == {k \in 1..attempts : Legal(outcomes[k], room, ai_uid)}
                IN /\ res.decision.action \in {"play", "challenge"}
                   /\ provider # PROVIDER_FOUND =>
                         res.calls = 0 /\ res.decision = fallback
                   /\ (provider = PROVIDER_FOUND /\ good = {}) =>
                         res.calls = attempts /\ res.decision = fallback
                   /\ (provider = PROVIDER_FOUND /\ good # {}) =>
                         \E k \in good :
                            /\ \A j \in good : k <= j
                            /\ res.calls = k
                            /\ res.decision = AnswerOf(outcomes[k])
    /\ \A r \in DOMAIN ai_action_tasks :
          ai_action_tasks[r].pc = "decided" =>
             /\ ai_action_tasks[r].calls <= ai_llm_retry_times + 1
             /\ ai_action_tasks[r].decision.action \in {"play", "challenge", "wire"}
             /\ ai_action_tasks[r].answered => ai_action_tasks[r].calls >= 1

\* An AI task holds the provider's answer to its second call, the first having failed.
C26_Witness ==
    \E r \in DOMAIN ai_action_tasks :
       /\ ai_action_tasks[r].pc = "decided"
       /\ ai_action_tasks[r].phase = PHASE_PLAYING
       /\ ai_action_tasks[r].answered
       /\ ai_action_tasks[r].calls = ai_llm_retry_times + 1
       /\ ai_action_tasks[r].decision.action = "challenge"

\* An AI task holds the heuristic decision after every call has failed.
C26_WitnessFallback ==
    \E r \in DOMAIN ai_action_tasks :
       /\ ai_action_tasks[r].pc = "decided"
       /\ ai_action_tasks[r].phase = PHASE_PLAYING
       /\ ~ai_action_tasks[r].answered
       /\ ai_action_tasks[r].calls = ai_llm_retry_times + 1

\* the registry, the index and the timers as they were before the last step
WorldBefore ==
    [rooms |-> obs.before.rooms, player_room_index |-> obs.before.player_room_index,
     play_timeout_tasks |-> obs.before.play_timeout_tasks,
     wire_timeout_tasks |-> obs.before.wire_timeout_tasks,
     ai_action_tasks |-> ai_action_tasks, outbox |-> <<>>]

\* the last step was a wire deadline firing with the room's token for the pending
\* holder, who had colours on offer
WireDeadlineFired ==
    /\ obs.kind = "wire_timer" /\ RoomWasLive
    /\ RoomBefore.phase = PHASE_AWAIT_WIRE
    /\ RoomBefore.action_token = obs.captured
    /\ RoomBefore.pending_wire_user_id = obs.uid
    /\ RoomBefore.wire_options # <<>>

\* C27: a wire deadline that fires with the room's token for the pending holder cuts
\* exactly one colour, one of those on offer to the holder, and leaves the rooms,
\* the membership index and the announcements as the holder's own cut-wire command
\* for that colour would have left them (same elimination, same finalisation or
\* next round).
C27_DeadlineCutsAsThePlayer ==
    WireDeadlineFired =>
       /\ Cardinality(CutResults) = 1
       /\ \A i \in CutResults :
            LET cut == last_update[i]
            IN /\ cut.uid = obs.uid
               /\ Contains(RoomBefore.wire_options, cut.color)
               /\ cut_wire_allowed(WorldBefore, obs.uid, obs.room, cut.color)
               /\ \E rnd \in Rnd :
                    LET byPlayer == cut_wire(WorldBefore, obs.uid, obs.room, cut.color, rnd)
                    IN /\ rooms = byPlayer.rooms
                       /\ player_room_index = byPlayer.player_room_index
                       /\ last_update = byPlayer.outbox
                       /\ saved = Snapshot(byPlayer)

\* A wire deadline has cut the second of the two colours on offer, which was not
\* the holder's bomb, and the next round has started.
C27_Witness ==
    /\ WireDeadlineFired
    /\ Len(RoomBefore.wire_options) = 2
    /\ \E i \in CutResults :
          /\ last_update[i].color = RoomBefore.wire_options[2]
          /\ last_update[i].kind = "safe"
    /\ RoomIsLive /\ RoomNow.round_no = RoomBefore.round_no + 1

\* A wire deadline has cut the holder's bomb and closed the room.
C27_WitnessClosed ==
    /\ WireDeadlineFired
    /\ Announced("exploded")
    /\ ~RoomIsLive

\* C28: every step that changes a room or the membership index (a command, a play
\* or wire deadline, an AI action, the cleanup) ends with the payload handed to
\* StateRepository.save equal to the registry of rooms and the index it leaves.
C28_ChangesArePersisted ==
    [][(rooms' # rooms \/ player_room_index' # player_room_index) =>
          saved' = [rooms |-> rooms', player_room_index |-> player_room_index']]_vars

\* A play deadline has eliminated the turn holder, and the payload saved holds the
\* room with that player out.
C28_Witness ==
    /\ obs.kind = "play_timer" /\ RoomWasLive /\ RoomIsLive
    /\ RoomBefore.players[obs.uid].alive
    /\ ~RoomNow.players[obs.uid].alive
    /\ saved # obs.before.saved
    /\ ~saved.rooms[obs.room].players[obs.uid].alive

\* An AI action has changed the room, and the payload saved holds the room as the
\* action left it.
C28_WitnessAi ==
    /\ obs.kind = "ai_apply" /\ RoomWasLive /\ RoomIsLive
    /\ RoomNow # RoomBefore
    /\ saved # obs.before.saved
    /\ saved.rooms[obs.room] = RoomNow

\* the state file holds the whole text of payload
Holds(payload) == disk.state_file = File(json_dump(payload))

\* C29: whatever a write is at, and after the process has died at any point of it,
\* the state file is as the write found it or holds the whole text of the payload
\* being written, never a part of it; until the rename it is as the write found it;
\* and what the next construction loads is the payload of that file.
C29_NoHalfWrittenSnapshot ==
    /\ disk.state_file.exists => json_load(disk.state_file.text) # None
    /\ disk.state_file = disk.previous \/ Holds(disk.writing)
    /\ disk.pc # "idle" => disk.state_file = disk.previous
    /\ obs.kind = "crash" =>
          /\ saved = Loaded(disk)
          /\ rooms = load_state(Loaded(disk)).rooms

\* The process has died with the .tmp file partly written; the state file still
\* holds the whole snapshot of before, and its room has been loaded.
C29_Witness ==
    /\ obs.kind = "crash" /\ obs.phase = "writing"
    /\ disk.tmp_file.exists
    /\ Len(disk.tmp_file.text) > 0
    /\ Len(disk.tmp_file.text) < Len(json_dump(disk.writing))
    /\ disk.state_file.exists
    /\ disk.state_file = disk.previous
    /\ ~Holds(disk.writing)
    /\ rooms # EmptyDict

\* The process has died after the rename, and the new snapshot has been loaded.
C29_WitnessNew ==
    /\ obs.kind = "crash" /\ obs.phase = "idle"
    /\ Holds(disk.writing)
    /\ disk.state_file # disk.previous
    /\ rooms # EmptyDict

\* the plugin has just been constructed again from the saved snapshot
Restarted == obs.kind = "reload"

\* the deadline of room_id is armed: a timer not yet run, holding the room's token
\* and the player it waits for, whose firing passes the guards of its handler
PlayDeadlineArmed(room_id) ==
    LET room == rooms[room_id]
    IN /\ room_id \in DOMAIN play_timeout_tasks
       /\ play_timeout_tasks[room_id] = TimerTask(room.action_token, room.current_turn_user_id)
       /\ room.action_token = saved.rooms[room_id].action_token
       /\ room.play_deadline_ts = saved.rooms[room_id].play_deadline_ts
       /\ room.play_deadline_ts > 0
       /\ play_timeout_applies(World, room_id, room.action_token, room.current_turn_user_id)
       /\ room.players[room.current_turn_user_id].alive

WireDeadlineArmed(room_id) ==
    LET room == rooms[room_id]
    IN /\ room_id \in DOMAIN wire_timeout_tasks
       /\ wire_timeout_tasks[room_id] = TimerTask(room.action_token, room.pending_wire_user_id)
       /\ room.action_token = saved.rooms[room_id].action_token
       /\ room.wire_deadline_ts = saved.rooms[room_id].wire_deadline_ts
       /\ room.wire_deadline_ts > 0
       /\ wire_timeout_applies(World, room_id, room.action_token, room.pending_wire_user_id)

\* every deadline of the rooms loaded is armed
DeadlinesArmed ==
    \A r \in DOMAIN rooms :
       /\ (rooms[r].phase = PHASE_PLAYING /\ rooms[r].current_turn_user_id # NoUser)
             => PlayDeadlineArmed(r)
       /\ (rooms[r].phase = PHASE_AWAIT_WIRE /\ rooms[r].pending_wire_user_id # NoUser)
             => WireDeadlineArmed(r)

\* room_id waits at token for a play or a wire cut
Waiting(room_id, token) ==
    /\ room_id \in DOMAIN rooms
    /\ rooms[room_id].phase \in {PHASE_PLAYING, PHASE_AWAIT_WIRE}
    /\ rooms[room_id].action_token = token

\* C30: right after a restart from the saved snapshot, every room in the playing
\* phase with a turn holder has a play timer armed with the persisted token for that
\* holder, and every room awaiting a wire cut with a pending holder has a wire timer
\* armed likewise, each one passing the guards of its handler; and a room that waits
\* at some token when the plugin is restarted is later closed or moved past that
\* token.
C30_DeadlinesSurviveRestart ==
    /\ [](Restarted => DeadlinesArmed)
    /\ \A r \in {WireRoom} : \A t \in 0..(MaxWireToken - 1) :
          (Restarted /\ Waiting(r, t)) ~> ~Waiting(r, t)

\* A restart has armed the play timer of a room whose turn holder was waited for.
C30_Witness ==
    /\ Restarted
    /\ \E r \in DOMAIN rooms :
          /\ rooms[r].phase = PHASE_PLAYING
          /\ PlayDeadlineArmed(r)
          /\ rooms[r].round_no > 1

\* A restart has armed the wire timer of a room awaiting a cut.
C30_WitnessWire ==
    /\ Restarted
    /\ \E r \in DOMAIN rooms :
          /\ rooms[r].phase = PHASE_AWAIT_WIRE
          /\ WireDeadlineArmed(r)

RECURSIVE SumOver(_, _)
SumOver(f, keys) ==
    IF keys = {} THEN 0
    ELSE LET k == CHOOSE x \in keys : TRUE IN f[k] + SumOver(f, keys \ {k})

\* the wires left to the alive players of a room, and the cards they hold
WiresLeft(room) ==
    SumOver([uid \in DOMAIN room.players |-> Len(room.players[uid].wires_remaining)],
            Range(alive_ids(room)))
CardsHeld(room) ==
    SumOver([uid \in DOMAIN room.players |-> Len(room.players[uid].hand)],
            Range(alive_ids(room)))

\* more than the cards of a full table plus one
RoundWeight == (MAX_PLAYERS * FIXED_HAND_SIZE) + 2

\* What is left of a match: 0 once the room is closed; else the wires left count
\* first, then whether the round is still to be challenged and the cards held.
Remaining(rms, room_id) ==
    IF room_id \notin DOMAIN rms THEN 0
    ELSE 1 + (WiresLeft(rms[room_id]) * RoundWeight)
           + (IF rms[room_id].phase = PHASE_PLAYING THEN 1 + CardsHeld(rms[room_id]) ELSE 0)

\* C31: every step that changes the room of a started match (a play, a challenge, a
\* wire cut, a deadline) leaves strictly less of the match, a natural number that is 0
\* exactly when the room is closed; and a room that waits at a token for a play or a
\* cut is later closed or past that token, no timer staying due for ever.  So the
\* match ends.
C31_MatchEnds ==
    /\ [][\A r \in {WireRoom} :
             (r \in DOMAIN rooms /\ (r \notin DOMAIN rooms' \/ rooms'[r] # rooms[r]))
                => Remaining(rooms', r) < Remaining(rooms, r)]_vars
    /\ \A r \in {WireRoom} : \A t \in 0..(MaxWireToken - 1) :
          Waiting(r, t) ~> ~Waiting(r, t)

\* A match has ended by a play deadline: the room is closed and the winner announced.
C31_Witness ==
    /\ obs.kind = "play_timer" /\ RoomWasLive /\ ~RoomIsLive
    /\ Remaining(obs.before.rooms, obs.room) > RoundWeight
    /\ Remaining(rooms, obs.room) = 0
    /\ Announced("winner")

\* the rooms of a started match
Started == {r \in DOMAIN rooms : rooms[r].phase \in {PHASE_PLAYING, PHASE_AWAIT_WIRE}}

\* the wire cuts a player has made in the match: the colours gone from the three
CutsMade(player) == Len(WIRE_COLORS) - Len(player.wires_remaining)

\* C32: in a started match every alive player has a wire left and the bomb colour
\* among the wires left, which are distinct wire colours; a pending holder with one
\* wire left is offered that wire alone, the bomb; each wire cut takes one wire from
\* the holder, so no player makes more than three.
C32_BombAmongRemainingWires ==
    /\ \A r \in Started : \A uid \in DOMAIN rooms[r].players :
          LET player == rooms[r].players[uid]
          IN /\ NoRepeat(player.wires_remaining)
             /\ Range(player.wires_remaining) \subseteq Range(WIRE_COLORS)
             /\ CutsMade(player) \in 0..Len(WIRE_COLORS)
             /\ player.alive =>
                   /\ player.wires_remaining # <<>>
                   /\ Contains(player.wires_remaining, player.bomb_color)
    /\ \A r \in Started :
          (rooms[r].phase = PHASE_AWAIT_WIRE /\ rooms[r].pending_wire_user_id # NoUser) =>
             LET holder == rooms[r].players[rooms[r].pending_wire_user_id]
             IN /\ Range(rooms[r].wire_options) = Range(holder.wires_remaining)
                /\ Len(holder.wires_remaining) = 1 =>
                      rooms[r].wire_options = <<holder.bomb_color>>
    /\ (WireCutStep /\ RoomIsLive) =>
          CutsMade(RoomNow.players[RoomBefore.pending_wire_user_id])
             = CutsMade(RoomBefore.players[RoomBefore.pending_wire_user_id]) + 1

\* A player with one wire left, the bomb, awaits the third cut.
C32_Witness ==
    \E r \in Started :
       /\ rooms[r].phase = PHASE_AWAIT_WIRE
       /\ rooms[r].pending_wire_user_id # NoUser
       /\ LET holder == rooms[r].players[rooms[r].pending_wire_user_id]
          IN /\ holder.alive
             /\ CutsMade(holder) = 2
             /\ rooms[r].wire_options = <<holder.bomb_color>>

\* the players of a room that are alive, counted from the player records
AliveCount(room) == Cardinality({uid \in DOMAIN room.players : room.players[uid].alive})

\* C33: every room of a started match has at least two alive players; no step takes
\* more than one alive player from a room that stays; a room closed by a step of the
\* game had at least two alive players before it; and the no-survivor result is
\* never announced.
C33_AtLeastTwoAlive ==
    /\ \A r \in Started : AliveCount(rooms[r]) >= 2
    /\ ~Announced("no_survivor")
    /\ (RoomWasLive /\ RoomBefore.phase # PHASE_WAITING) =>
          /\ AliveCount(RoomBefore) >= 2
          /\ RoomIsLive => AliveCount(RoomNow) >= AliveCount(RoomBefore) - 1
          /\ (~RoomIsLive /\ obs.kind \in {"cut", "wire_timer", "play_timer", "ai_apply"}) =>
                Announced("winner")

\* An elimination has left two of three players alive, and the match goes on.
C33_Witness ==
    /\ RoomWasLive /\ RoomIsLive
    /\ RoomBefore.phase # PHASE_WAITING
    /\ AliveCount(RoomBefore) = 3
    /\ AliveCount(RoomNow) = 2
    /\ RoomNow.phase = PHASE_PLAYING

\* The last elimination has closed the room with one survivor.
C33_WitnessClosed ==
    /\ RoomWasLive /\ ~RoomIsLive
    /\ AliveCount(RoomBefore) = 2
    /\ obs.kind \in {"cut", "wire_timer", "play_timer", "ai_apply"}
    /\ Announced("winner")

\* ---------------------------------------------------------------------
\* The pending claim and the room's target face
\* ---------------------------------------------------------------------

\* the bluff test against the face declared at play time
is_liar_declared(last) ==
    \E i \in DOMAIN last.cards : last.cards[i] \notin {last.declared_target, CARD_MAGIC}

ClaimPending(room) == room.last_play # None

\* C34: whenever a claim is pending, the face recorded in the claim is the
\* room's current target face, the claimant is an alive member and is not the
\* current turn holder, and the bluff test against the room's target gives
\* the verdict of the bluff test against the declared face.
C34_PendingClaimMatchesTarget ==
    \A room_id \in DOMAIN rooms :
        LET room == rooms[room_id]
            last == room.last_play[1]
        IN ClaimPending(room) =>
             /\ last.declared_target = room.target_card
             /\ last.player_id \in DOMAIN room.players
             /\ room.players[last.player_id].alive
             /\ last.player_id # room.current_turn_user_id
             /\ is_liar(room, last) = is_liar_declared(last)

\* a claim is pending in a round later than the first, whose target face
\* differs from some face of the claim
C34_Witness ==
    \E room_id \in DOMAIN rooms :
        LET room == rooms[room_id]
        IN /\ ClaimPending(room)
           /\ room.round_no >= 2
           /\ room.phase = PHASE_PLAYING
           /\ is_liar(room, room.last_play[1])

\* a claim is still pending while the punished player chooses a wire
C34_WitnessShowdown ==
    \E room_id \in DOMAIN rooms :
        LET room == rooms[room_id]
        IN /\ ClaimPending(room)
           /\ room.phase = PHASE_AWAIT_WIRE
           /\ obs.kind = "challenge"

\* ---------------------------------------------------------------------
\* Hands during play and the AI path's state repair
\* ---------------------------------------------------------------------

\* the AI tasks that have decided and whose second locked block would go on to act
\* for a seat due to play
AiAboutToPlay ==
    {r \in DOMAIN ai_action_tasks :
        /\ ai_action_tasks[r].pc = "decided"
        /\ ai_action_tasks[r].phase = PHASE_PLAYING
        /\ ai_apply_allowed(World, r, ai_action_tasks[r])}

\* the condition under which _run_ai_action restarts the round as a repair
AiRepairs(room, task, fallback) ==
    /\ ~(task.decision.action = "challenge" /\ room.last_play # None)
    /\ ai_play_norm(room.players[task.ai_uid], task.decision, fallback) = <<>>
    /\ room.last_play = None

\* C35: in a room in Playing phase every alive player holds between 1 and 5 cards;
\* so an AI seat that is due to act can lay its first card, every heuristic decision
\* for it is a play that normalises or a challenge of a pending claim, and a decided
\* AI task that goes on to act never takes the branch that restarts the round
\* because no legal action exists.
C35_HandsNonEmptyNoRepair ==
    /\ \A r \in DOMAIN rooms :
          rooms[r].phase = PHASE_PLAYING =>
             \A uid \in DOMAIN rooms[r].players :
                rooms[r].players[uid].alive =>
                   Len(rooms[r].players[uid].hand) \in 1..FIXED_HAND_SIZE
    /\ \A r \in AiDue :
          LET room == rooms[r]
              player == room.players[room.current_turn_user_id]
              max_cards == Min(ai_max_play_cards, Len(player.hand))
          IN /\ normalize_indices(<<1>>, Len(player.hand), max_cards) = <<1>>
             /\ \A fallback \in fallback_ai_decision(room, room.current_turn_user_id) :
                   \/ fallback.action = "challenge" /\ room.last_play # None
                   \/ /\ fallback.action = "play"
                      /\ normalize_indices(fallback.indices, Len(player.hand), max_cards) # <<>>
    /\ \A r \in AiAboutToPlay :
          \A fallback \in fallback_ai_decision(rooms[r], ai_action_tasks[r].ai_uid) :
             ~AiRepairs(rooms[r], ai_action_tasks[r], fallback)

\* an AI task has decided for a seat that is due to play with no claim pending, the
\* case in which an empty play would end in the repair
C35_Witness ==
    \E r \in AiAboutToPlay : rooms[r].last_play = None

\* an AI task has decided for a seat that holds fewer cards than were dealt
C35_WitnessShortHand ==
    \E r \in AiAboutToPlay :
        Len(rooms[r].players[ai_action_tasks[r].ai_uid].hand) < FIXED_HAND_SIZE

\* a player is down to the last card in Playing phase
C35_WitnessLastCard ==
    \E r \in DOMAIN rooms :
        /\ rooms[r].phase = PHASE_PLAYING
        /\ \E uid \in DOMAIN rooms[r].players :
              rooms[r].players[uid].alive /\ Len(rooms[r].players[uid].hand) = 1

\* ---------------------------------------------------------------------
\* Timers and phases
\* ---------------------------------------------------------------------

\* the timer task held for the room has not run yet and was armed for uid with
\* the room's action token
ArmedFor(tasks, room_id, uid) ==
    /\ room_id \in DOMAIN tasks
    /\ ~tasks[room_id].done
    /\ tasks[room_id].token = rooms[room_id].action_token
    /\ tasks[room_id].target_uid = uid

\* no timer task that has yet to run is held for the room
Unarmed(tasks, room_id) ==
    room_id \in DOMAIN tasks => tasks[room_id].done

\* C36: between handlers, a room in Playing phase has its play timer armed for
\* the current turn holder with the room's action token and no wire timer; a room
\* in AwaitingWireCut has its wire timer armed for the pending holder with the
\* room's action token and no play timer; a room in Waiting has neither; no timer
\* or AI task is held for a room that is gone, and an AI task is held only for its
\* room, at most one per room.
C36_TimersMatchPhase ==
    /\ \A r \in DOMAIN rooms :
          /\ rooms[r].phase = PHASE_PLAYING =>
                /\ ArmedFor(play_timeout_tasks, r, rooms[r].current_turn_user_id)
                /\ Unarmed(wire_timeout_tasks, r)
          /\ rooms[r].phase = PHASE_AWAIT_WIRE =>
                /\ ArmedFor(wire_timeout_tasks, r, rooms[r].pending_wire_user_id)
                /\ Unarmed(play_timeout_tasks, r)
          /\ rooms[r].phase = PHASE_WAITING =>
                /\ Unarmed(play_timeout_tasks, r)
                /\ Unarmed(wire_timeout_tasks, r)
    /\ \A r \in DOMAIN play_timeout_tasks \cup DOMAIN wire_timeout_tasks : r \in DOMAIN rooms
    /\ \A r \in DOMAIN ai_action_tasks : r \in DOMAIN rooms

\* ---------------------------------------------------------------------
\* Jobs of a closed room and a later room of the same id
\* ---------------------------------------------------------------------

NoTaskFor(r, plays, wires, ais) ==
    r \notin DOMAIN plays /\ r \notin DOMAIN wires /\ r \notin DOMAIN ais

Opened == DOMAIN rooms' \ DOMAIN rooms

\* the step was a timer or the AI task changing the state of a room
JobActed ==
    /\ obs' # obs
    /\ obs'.kind \in {"play_timer", "wire_timer", "ai_apply"}
    /\ rooms' # rooms

\* C37: no play timer, wire timer or AI task is held for a room id while no room
\* of that id is open or while its room is still waiting to start; a room that is
\* opened starts at action token 0 in Waiting phase with no task held for its id,
\* whatever the earlier room of that id had armed; and a timer or AI task that
\* changes a room was held for it, with the room's token, when the step began.  So
\* every job that acts on a room was created for that room and none for a closed
\* room of the same id.
C37_ClosedRoomJobsNeverAct ==
    /\ [](\A r \in Rooms :
            (r \notin DOMAIN rooms \/ rooms[r].phase = PHASE_WAITING) =>
               NoTaskFor(r, play_timeout_tasks, wire_timeout_tasks, ai_action_tasks))
    /\ [][/\ \A r \in Opened :
               /\ rooms'[r].action_token = 0
               /\ rooms'[r].phase = PHASE_WAITING
               /\ NoTaskFor(r, play_timeout_tasks', wire_timeout_tasks', ai_action_tasks')
          /\ JobActed =>
               /\ obs'.room \in DOMAIN rooms
               /\ obs'.captured = rooms[obs'.room].action_token
               /\ obs'.room \in (IF obs'.kind = "play_timer" THEN DOMAIN play_timeout_tasks
                                  ELSE IF obs'.kind = "wire_timer" THEN DOMAIN wire_timeout_tasks
                                  ELSE DOMAIN ai_action_tasks)]_vars

\* the AI task has acted on a room that u2 opened after u1's room of the same id was
\* closed, at a token that a room of u1 can reach as well
C37_Witness ==
    /\ obs.kind = "ai_apply" /\ obs.room = ReopenRoom
    /\ obs.captured >= 1
    /\ ReopenRoom \in DOMAIN rooms
    /\ rooms[ReopenRoom].owner_id = ReopenLater

\* a play timer has eliminated the turn holder of a room that u2 opened
C37_WitnessTimer ==
    /\ obs.kind = "play_timer" /\ obs.room = ReopenRoom
    /\ ReopenRoom \in DOMAIN rooms
    /\ rooms[ReopenRoom].owner_id = ReopenLater

\* ---------------------------------------------------------------------
\* The window of start-match
\* ---------------------------------------------------------------------

\* the calls of _cmd_start_room whose second locked block runs in this step
Applying == DOMAIN start_calls \ DOMAIN start_calls'

\* the room leaves Waiting phase in this step
LeavesWaiting(r) ==
    /\ r \in DOMAIN rooms /\ rooms[r].phase = PHASE_WAITING
    /\ (r \notin DOMAIN rooms' \/ rooms'[r].phase # PHASE_WAITING)
    /\ obs'.kind = "start"

HumansOf(room) ==
    {uid \in Range(room.order) : uid \in DOMAIN room.players /\ ~room.players[uid].is_ai}

\* C38: a room leaves Waiting for a match only in the second locked block of a
\* start call for that room, and then the room as it is at that moment is in
\* Waiting phase, owned by the caller, with 3 to 5 members of whom one at least is
\* human; the deck is locked from the member count of that moment; and every human
\* member of that moment was probed by the call.  A call whose room is gone, is
\* no longer waiting or no longer meets the preconditions changes no room, index
\* entry or timer, so of two competing calls at most one starts the room.
C38_StartWindow ==
    [][/\ \A r \in StartRooms :
            LeavesWaiting(r) =>
               \E c \in Applying :
                  LET call == start_calls[c]
                      room == rooms[r]
                  IN /\ call.room_id = r
                     /\ call.user_id = room.owner_id
                     /\ Len(room.order) >= MIN_PLAYERS /\ Len(room.order) <= MAX_PLAYERS
                     /\ human_count(room) > 0
                     /\ require_dm_reachable_before_start =>
                           HumansOf(room) \subseteq Range(call.probe_targets)
                     /\ r \in DOMAIN rooms' =>
                           /\ rooms'[r].initial_player_count = Len(room.order)
                           /\ rooms'[r].round_deck_counts = build_locked_deck_counts(Len(room.order))
                           /\ rooms'[r].order = room.order
       /\ \A c \in Applying :
            LET call == start_calls[c]
            IN (\/ call.room_id \notin DOMAIN rooms
                \/ rooms[call.room_id].phase # PHASE_WAITING
                \/ Len(rooms[call.room_id].order) < MIN_PLAYERS
                \/ call.user_id # rooms[call.room_id].owner_id) =>
                  UNCHANGED <<rooms, player_room_index, play_timeout_tasks,
                              wire_timeout_tasks, ai_action_tasks, saved>>]_vars

StartCallOf == obs.before.call

\* a start call has been refused because a human who joined after its checks was not
\* probed, although every human it probed answered
C38_Witness ==
    /\ obs.kind = "start" /\ RoomWasLive /\ RoomIsLive
    /\ RoomNow.phase = PHASE_WAITING
    /\ Announced("unreachable")
    /\ HumansOf(RoomBefore) \ Range(StartCallOf.probe_targets) # {}
    /\ \A uid \in Range(StartCallOf.probe_targets) : RoomNow.players[uid].dm_reachable

\* a match has been started with more members than the call's checks saw, its deck
\* locked from the later count
C38_WitnessGrown ==
    /\ obs.kind = "start" /\ RoomWasLive /\ RoomIsLive
    /\ RoomNow.phase = PHASE_PLAYING
    /\ StartCallOf.members < Len(RoomBefore.order)
    /\ RoomNow.initial_player_count = Len(RoomBefore.order)

\* a second call finds the room already started by a competing call and starts nothing
C38_WitnessCompeting ==
    /\ obs.kind = "start" /\ RoomWasLive /\ RoomIsLive
    /\ RoomBefore.phase = PHASE_PLAYING
    /\ RoomNow = RoomBefore

\* a call applies after its room was closed in the window
C38_WitnessClosed ==
    /\ obs.kind = "start" /\ HasBefore /\ ~RoomWasLive
    /\ StartCallOf.room_id = obs.room

\* ---------------------------------------------------------------------
\* Independence of rooms
\* ---------------------------------------------------------------------

\* what the engine holds for room id q: the room with its token, the index entries
\* that point to it, its timers and its AI task
HeldFor(q, rms, index, plays, wires, ais) ==
    <<IF q \in DOMAIN rms THEN <<rms[q]>> ELSE <<>>,
      {u \in DOMAIN index : index[u] = q},
      IF q \in DOMAIN plays THEN <<plays[q]>> ELSE <<>>,
      IF q \in DOMAIN wires THEN <<wires[q]>> ELSE <<>>,
      IF q \in DOMAIN ais THEN <<ais[q]>> ELSE <<>>>>

\* C39: a play, challenge, wire cut, deadline firing or AI step on one room leaves
\* every other room with its state, action token, timers, AI task and index
\* entries as they were, also when the step closes its own room; and a private
\* play that is applied changes the room the sender's index entry names, of which
\* the sender is a member, and no other.
C39_RoomsIndependent ==
    [][/\ \A q \in PairRooms \ {obs'.room} :
            HeldFor(q, rooms', player_room_index', play_timeout_tasks', wire_timeout_tasks',
                    ai_action_tasks')
              = HeldFor(q, rooms, player_room_index, play_timeout_tasks, wire_timeout_tasks,
                        ai_action_tasks)
       /\ obs'.room \in PairRooms
       /\ (obs'.kind = "play" /\ rooms' # rooms) =>
            /\ obs'.uid \in DOMAIN player_room_index
            /\ player_room_index[obs'.uid] = obs'.room
            /\ obs'.uid \in DOMAIN rooms[obs'.room].players]_vars

\* a step has just changed one room while the other room is in a match with its
\* own claim pending, a later token and a timer armed
C39_Witness ==
    /\ obs.kind \in TurnKinds /\ RoomWasLive /\ RoomChanged
    /\ \E q \in PairRooms \ {obs.room} :
          /\ q \in DOMAIN rooms
          /\ rooms[q].last_play # None
          /\ rooms[q].action_token >= 2
          /\ q \in DOMAIN play_timeout_tasks

\* a match has just been closed by a deadline while the other room plays on
C39_WitnessClosed ==
    /\ obs.kind = "play_timer" /\ RoomWasLive /\ ~RoomIsLive
    /\ \E q \in PairRooms \ {obs.room} :
          /\ q \in DOMAIN rooms
          /\ \E u \in DOMAIN player_room_index : player_room_index[u] = q

\* the AI seat of one room has played while the other room waits for a wire cut
C39_WitnessAi ==
    /\ obs.kind = "ai_apply" /\ RoomWasLive /\ RoomChanged
    /\ \E q \in PairRooms \ {obs.room} :
          q \in DOMAIN rooms /\ rooms[q].phase = PHASE_AWAIT_WIRE

\* ---------------------------------------------------------------------
\* What the group learns from a play
\* ---------------------------------------------------------------------

FACES == {CARD_SUN, CARD_MOON, CARD_STAR, CARD_MAGIC}
TauntLines == {"", "taunt"}

\* hands of the same size holding other faces: one face throughout, the hand in
\* reverse order, and the hand with its first card replaced
OtherHands(hand) ==
    {[i \in DOMAIN hand |-> c] : c \in FACES}
    \cup {[i \in DOMAIN hand |-> hand[Len(hand) + 1 - i]]}
    \cup {[hand EXCEPT ![1] = c] : c \in FACES}

WithHand(room, uid, hand) == [room EXCEPT !.players[uid].hand = hand]

\* the kinds and subjects of the events apply_play_locked emits
EventsOfPlay(room_id, room, uid, indices, rnd) ==
    apply_play_locked(SetRoom(World, room_id, room), room_id, uid, indices, rnd).outbox

\* C40: for the turn holder of a room in Playing phase, any indices and any taunt
\* line, a play that leaves cards in the hand puts the same messages into the
\* group outbox whatever faces the hand holds: replacing the hand by another of
\* the same size changes neither the announcement (actor, number of cards, target
\* face, next player) nor the events of the step; and the announcement names the
\* actor, the number of distinct indices, the room's target and the next alive
\* player.
C40_GroupOutputHidesFaces ==
    \A room_id \in DOMAIN rooms :
       LET room == rooms[room_id]
           uid == room.current_turn_user_id
       IN (room.phase = PHASE_PLAYING /\ uid \in DOMAIN room.players) =>
            \A indices \in PlayArgs, taunt \in TauntLines :
               LET out == play_outbox(room, uid, indices, taunt)
               IN out # None =>
                    /\ \A hand \in OtherHands(room.players[uid].hand) :
                          /\ play_outbox(WithHand(room, uid, hand), uid, indices, taunt) = out
                          /\ EventsOfPlay(room_id, WithHand(room, uid, hand), uid, indices, Rnd0)
                               = EventsOfPlay(room_id, room, uid, indices, Rnd0)
                    /\ (out[1] = <<>>) = (EventsOfPlay(room_id, room, uid, indices, Rnd0) = <<>>)
                    /\ out[1] # <<>> =>
                          /\ Len(out[1]) = 1
                          /\ out[1][1].pname = display_player_name(room, uid)
                          /\ out[1][1].card_count = Cardinality(Range(indices))
                          /\ out[1][1].declared = room.target_card
                          /\ out[1][1].next_name =
                                display_player_name(room, next_alive_after(room, uid))
                          /\ EventsOfPlay(room_id, room, uid, indices, Rnd0)
                               = <<Event("play", uid, "")>>

\* a bluff has just been laid by a player who keeps cards: the claim pending holds a
\* face that is neither the target nor the wild card, and the group was told of
\* the play
C40_Witness ==
    /\ obs.kind = "play" /\ RoomWasLive /\ RoomIsLive
    /\ RoomNow.phase = PHASE_PLAYING
    /\ RoomNow.last_play # None
    /\ is_liar(RoomNow, RoomNow.last_play[1])
    /\ RoomNow.players[obs.uid].hand # <<>>
    /\ Announced("play")
    /\ Len(RoomNow.last_play[1].cards) >= 2

====
